---- MODULE Spec2Model ----
(***************************************************************************)
(* RakshaSetu blockchain module.                                           *)
(*                                                                         *)
(*   SpecLedger   : SimpleBlockchain (services/simpleBlockchain.ts), the   *)
(*                  in-process hash chain with its digital-ID registry,    *)
(*                  the MongoDB collection behind it and the clock.        *)
(*   SpecRegistry : the DigitalID contract (contracts/DigitalID.sol) and   *)
(*                  DigitalIDService / BlockchainService in front of it.   *)
(*   SpecService  : DigitalIDService alone, several calls in flight.       *)
(*   SpecCodec    : the QR strings of DigitalIDService and QRService       *)
(*                  (services/qrService.ts), generated, altered, parsed    *)
(*                  and validated against the contract.                    *)
(*                                                                         *)
(* Strings are sequences of atoms.  An atom is one decimal digit, or a     *)
(* piece of text that is never split ("tourist", a JSON key).  Numbers are *)
(* converted digit by digit, so that string concatenation next to a number *)
(* behaves as it does in JavaScript.                                       *)
(***************************************************************************)
EXTENDS Integers, Sequences, FiniteSets, TLC

VARIABLES
    \* ---- SimpleBlockchain ----
    chain,            \* this.chain : Block[]
    transactions,     \* this.transactions : Transaction[]
    digitalIDs,       \* this.digitalIDs : DigitalID[]
    now,              \* the value Date.now() last returned
    db,               \* the DigitalID collection, in insertion order
    loadPc,           \* position of the constructor's loadDigitalIDsFromDB
    loadResult,       \* documents its find() returned
    calls,            \* createDigitalID invocations, in invocation order
    \* ---- DigitalID contract and DigitalIDService ----
    owner,            \* owner : the deployer of the contract
    idCounter,        \* _idCounter
    identities,       \* identities : id -> Identity
    walletToIdentity,
    emailToIdentity,
    aadhaarToIdentity,
    passportToIdentity,
    events,           \* the contract's event log
    verificationQueue,\* DigitalIDService.verificationQueue
    tasks,            \* DigitalIDService calls in flight or finished
    \* ---- QR strings ----
    qr,               \* the QR string at hand and the object it encodes
    qrCall,           \* the validateQRCodeData or parseQRCode call made
                      \* on that string last, and what it returned
    \* ---- SimpleBlockchain.addBlock, seen one iteration at a time ----
    mining            \* newBlock of the addBlock call inside mineBlock

ledgerVars == <<chain, transactions, digitalIDs, now, db,
                loadPc, loadResult, calls>>
registryVars == <<owner, idCounter, identities, walletToIdentity,
                  emailToIdentity, aadhaarToIdentity, passportToIdentity,
                  events, verificationQueue, tasks>>
codecVars == <<qr, qrCall>>
minerVars == <<mining>>
vars == <<chain, transactions, digitalIDs, now, db,
          loadPc, loadResult, calls,
          owner, idCounter, identities, walletToIdentity, emailToIdentity,
          aadhaarToIdentity, passportToIdentity, events,
          verificationQueue, tasks, qr, qrCall, mining>>

(***************************************************************************)
(* Bounds of the model.                                                    *)
(***************************************************************************)
MaxClock == 1         \* Date.now() ranges over 0..MaxClock
MaxBlocks == 2        \* blocks appended after the genesis block
MaxCalls == 2         \* createDigitalID invocations
MaxTx == 1            \* addTransaction invocations
MaxEvents == 3        \* events the contract emits (transactions that succeed)
MaxRoles == 2         \* roles of one identity
MaxTasks == 1         \* DigitalIDService invocations
MaxServiceTasks == 3  \* ... when the service alone sends transactions

(***************************************************************************)
(* Strings and numbers.                                                    *)
(***************************************************************************)
Digit == <<"0", "1", "2", "3", "4", "5", "6", "7", "8", "9">>

\* String(n) for a non-negative integer, as `+` applies it to a number operand.
RECURSIVE Str(_)
Str(n) ==
    IF n < 10 THEN <<Digit[n + 1]>>
    ELSE Str(n \div 10) \o <<Digit[(n % 10) + 1]>>

Reverse(s) == [i \in 1..Len(s) |-> s[Len(s) + 1 - i]]

IsPrefix(s, t) == Len(s) <= Len(t) /\ SubSeq(t, 1, Len(s)) = s

Later(t) == {u \in {t, t + 1} : u <= MaxClock}

(***************************************************************************)
(* JSON.stringify of an object.  An object is a sequence of properties     *)
(* [k, q, v]: key, whether the value is a string (quoted) and the value's  *)
(* text.  A property whose value is undefined is left out of the output.   *)
(***************************************************************************)
Undefined == <<"undefined">>
Prop(k, q, v) == [k |-> k, q |-> q, v |-> v]

RECURSIVE Members(_, _)
Members(obj, first) ==
    IF obj = <<>> THEN <<>>
    ELSE LET p == Head(obj) IN
         IF ~p.q /\ p.v = Undefined THEN Members(Tail(obj), first)
         ELSE (IF first THEN <<>> ELSE <<",">>)
              \o <<"\"" \o p.k \o "\":">>
              \o (IF p.q THEN <<"\"">> \o p.v \o <<"\"">> ELSE p.v)
              \o Members(Tail(obj), FALSE)

Stringify(obj) == <<"{">> \o Members(obj, TRUE) \o <<"}">>

(***************************************************************************)
(* JSON.parse.  A text is a sequence of atoms: the punctuation { } [ ] , "  *)
(* one atom each, a key with its quotes and colon one atom, a digit one    *)
(* atom, and any other atom a piece of a string or a literal.  The parser  *)
(* splits a bracketed value at its top-level commas and descends into the  *)
(* items; a text it cannot read is a SyntaxError.                          *)
(***************************************************************************)
Quote == "\""

KeyAtom(k) == "\"" \o k \o "\":"

Keys == {"id", "name", "email", "walletAddress", "isVerified", "roles",
         "contractAddress", "timestamp", "userId", "type", "data",
         "transactionHash", "note"}

IsKey(a) == \E k \in Keys : KeyAtom(k) = a
KeyOf(a) == CHOOSE k \in Keys : KeyAtom(k) = a

IsDigit(a) == \E d \in 1..10 : Digit[d] = a

IsNumber(v) ==
    /\ v # <<>>
    /\ \A i \in 1..Len(v) : IsDigit(v[i])
    /\ Len(v) > 1 => v[1] # "0"

IsLiteral(v) == IsNumber(v) \/ v \in {<<"true">>, <<"false">>, <<"null">>}

IsString(v) ==
    /\ Len(v) >= 2
    /\ v[1] = Quote
    /\ v[Len(v)] = Quote
    /\ \A i \in 2..(Len(v) - 1) : v[i] # Quote

\* Position j of t lies inside a string; the bracket depth before position j.
InString(t, j) == Cardinality({m \in 1..(j - 1) : t[m] = Quote}) % 2 = 1

Depth(t, j) ==
    Cardinality({m \in 1..(j - 1) : t[m] \in {"{", "["} /\ ~InString(t, m)})
    - Cardinality({m \in 1..(j - 1) : t[m] \in {"}", "]"} /\ ~InString(t, m)})

TopComma(t, j) == t[j] = "," /\ ~InString(t, j) /\ Depth(t, j) = 0

\* The items between the top-level commas of t.
RECURSIVE Split(_)
Split(t) ==
    IF \E j \in 1..Len(t) : TopComma(t, j)
    THEN LET j == CHOOSE j \in 1..Len(t) :
                     /\ TopComma(t, j)
                     /\ \A m \in 1..(j - 1) : ~TopComma(t, m)
         IN  <<SubSeq(t, 1, j - 1)>> \o Split(SubSeq(t, j + 1, Len(t)))
    ELSE <<t>>

Interior(v) == SubSeq(v, 2, Len(v) - 1)

Bracketed(v, open, close) ==
    Len(v) >= 2 /\ v[1] = open /\ v[Len(v)] = close

\* v is the text of one JSON value.
RECURSIVE ValueOk(_)
ValueOk(v) ==
    \/ IsString(v)
    \/ IsLiteral(v)
    \/ /\ Bracketed(v, "{", "}")
       /\ \/ Interior(v) = <<>>
          \/ LET items == Split(Interior(v)) IN
             \A i \in 1..Len(items) :
                /\ Len(items[i]) >= 2
                /\ IsKey(items[i][1])
                /\ ValueOk(Tail(items[i]))
    \/ /\ Bracketed(v, "[", "]")
       /\ \/ Interior(v) = <<>>
          \/ LET items == Split(Interior(v)) IN
             \A i \in 1..Len(items) : ValueOk(items[i])

\* The property a member of an object text stands for.
PropOf(item) ==
    IF IsString(Tail(item))
    THEN Prop(KeyOf(item[1]), TRUE, Interior(Tail(item)))
    ELSE Prop(KeyOf(item[1]), FALSE, Tail(item))

\* JSON.parse(text): a SyntaxError, null, an object with its properties, or
\* another value (string, number, boolean, array), which has none of the
\* properties the callers read.
JSONparse(text) ==
    IF ~ValueOk(text) THEN [kind |-> "error", props |-> <<>>]
    ELSE IF text = <<"null">> THEN [kind |-> "null", props |-> <<>>]
    ELSE IF text[1] = "{"
    THEN [kind |-> "object",
          props |-> IF Interior(text) = <<>> THEN <<>>
                    ELSE LET items == Split(Interior(text)) IN
                         [i \in 1..Len(items) |-> PropOf(items[i])]]
    ELSE [kind |-> "other", props |-> <<>>]

\* obj.k: the last property of that name, or nothing (undefined).
Get(props, k) ==
    IF \E i \in 1..Len(props) : props[i].k = k
    THEN <<props[CHOOSE i \in 1..Len(props) :
                    /\ props[i].k = k
                    /\ \A m \in (i + 1)..Len(props) : props[m].k # k]>>
    ELSE <<>>

\* !x is false: x is neither undefined, "", 0, false nor null.
Truthy(x) ==
    /\ x # <<>>
    /\ IF x[1].q THEN x[1].v # <<>>
       ELSE x[1].v \notin {<<"0">>, <<"false">>, <<"null">>}

\* The number a text of digits denotes.
RECURSIVE Num(_)
Num(v) ==
    IF v = <<>> THEN 0
    ELSE 10 * Num(SubSeq(v, 1, Len(v) - 1))
         + (CHOOSE d \in 1..10 : Digit[d] = v[Len(v)]) - 1

\* JSON.stringify of an array of strings.
RECURSIVE Elements(_, _)
Elements(strs, first) ==
    IF strs = <<>> THEN <<>>
    ELSE (IF first THEN <<>> ELSE <<",">>)
         \o <<Quote>> \o Head(strs) \o <<Quote>>
         \o Elements(Tail(strs), FALSE)

StringifyArray(strs) == <<"[">> \o Elements(strs, TRUE) \o <<"]">>

(***************************************************************************)
(* SHA-256, hex-encoded.  The digest of a message is modelled as two hex   *)
(* digits that are a fixed function of the message, followed by the        *)
(* message itself and an end mark: equal messages have equal digests and   *)
(* different messages different digests (no collisions), and whether a     *)
(* digest starts with zeros is decided by the message alone.               *)
(***************************************************************************)
Hex == <<"0", "1", "2", "3", "4", "5", "6", "7", "8", "9",
         "a", "b", "c", "d", "e", "f">>

AtomCode(a) ==
    IF \E d \in 1..10 : Digit[d] = a
    THEN (CHOOSE d \in 1..10 : Digit[d] = a) - 1
    ELSE Len(a)

\* The sum of the atoms' codes, modulo 4.
Mix(s) ==
    LET n(c) == Cardinality({i \in 1..Len(s) : AtomCode(s[i]) % 4 = c})
    IN  (n(1) + 2 * n(2) + 3 * n(3)) % 4

sha256(message) ==
    <<Hex[(Mix(message) \div 2) + 1], Hex[(Mix(message) % 2) + 1]>>
    \o message \o <<"$">>

(***************************************************************************)
(* Blocks.                                                                 *)
(***************************************************************************)
difficulty == 2

GenesisData == <<Prop("message", TRUE, <<"RakshaSetu Genesis Block">>)>>

\* index + timestamp is a sum of two numbers; the rest is concatenation.
calculateHash(index, timestamp, data, previousHash, nonce) ==
    sha256(Str(index + timestamp) \o Stringify(data) \o previousHash \o Str(nonce))

\* '0'.repeat(n)
RECURSIVE Zeros(_)
Zeros(n) == IF n = 0 THEN <<>> ELSE <<"0">> \o Zeros(n - 1)

\* block.hash.substring(0, n)
Substring0(s, n) == SubSeq(s, 1, IF n < Len(s) THEN n ELSE Len(s))

\* An iteration of mineBlock's loop that keeps the hash it had.
mineBlockStepStaleHash(block) == [block EXCEPT !.nonce = block.nonce + 1]

\* One iteration of mineBlock's loop: block.nonce++, then the hash anew.
mineBlockStep(block) ==
    [block EXCEPT
        !.nonce = block.nonce + 1,
        !.hash = calculateHash(block.index, block.timestamp, block.data,
                               block.previousHash, block.nonce + 1)]

\* A miner that counts the nonce once more after the hash was found.
RECURSIVE mineBlockStaleHash(_)
mineBlockStaleHash(block) ==
    IF Substring0(block.hash, difficulty) # Zeros(difficulty)
    THEN mineBlockStaleHash([block EXCEPT
            !.nonce = block.nonce + 1,
            !.hash = calculateHash(block.index, block.timestamp, block.data,
                                   block.previousHash, block.nonce + 1)])
    ELSE [block EXCEPT !.nonce = block.nonce + 1]

\* mineBlock(difficulty): count the nonce up until the hash has the prefix.
RECURSIVE mineBlock(_)
mineBlock(block) ==
    IF Substring0(block.hash, difficulty) # Zeros(difficulty)
    THEN mineBlock([block EXCEPT
            !.nonce = block.nonce + 1,
            !.hash = calculateHash(block.index, block.timestamp, block.data,
                                   block.previousHash, block.nonce + 1)])
    ELSE block

\* The genesis block: its timestamp and the timestamp hashed are two reads
\* of the clock, t1 and t2.
createGenesisBlock(t1, t2) ==
    [index |-> 0,
     timestamp |-> t1,
     data |-> GenesisData,
     previousHash |-> <<"0">>,
     hash |-> calculateHash(0, t2, GenesisData, <<"0">>, 0),
     nonce |-> 0]

\* An addBlock that takes the first block for the latest one.
addBlockFromFirst(ch, data, t) ==
    LET previousBlock == ch[1]
        newBlock == [index |-> previousBlock.index + 1,
                     timestamp |-> t,
                     data |-> data,
                     previousHash |-> previousBlock.hash,
                     hash |-> calculateHash(previousBlock.index + 1, t, data,
                                            previousBlock.hash, 0),
                     nonce |-> 0]
    IN  Append(ch, mineBlock(newBlock))

\* An addBlock that stores the new block in the place of the latest one.
addBlockInPlace(ch, data, t) ==
    LET previousBlock == ch[Len(ch)]
        newBlock == [index |-> previousBlock.index + 1,
                     timestamp |-> t,
                     data |-> data,
                     previousHash |-> previousBlock.hash,
                     hash |-> calculateHash(previousBlock.index + 1, t, data,
                                            previousBlock.hash, 0),
                     nonce |-> 0]
    IN  IF Len(ch) = 1 THEN Append(ch, mineBlock(newBlock))
        ELSE [ch EXCEPT ![Len(ch)] = mineBlock(newBlock)]

\* addBlock(data) at clock reading t: the chain after the push.
addBlock(ch, data, t) ==
    LET previousBlock == ch[Len(ch)]
        newBlock == [index |-> previousBlock.index + 1,
                     timestamp |-> t,
                     data |-> data,
                     previousHash |-> previousBlock.hash,
                     hash |-> calculateHash(previousBlock.index + 1, t, data,
                                            previousBlock.hash, 0),
                     nonce |-> 0]
    IN  Append(ch, mineBlock(newBlock))

validateChain(ch) ==
    \A i \in 2..Len(ch) :
        /\ ch[i].hash = calculateHash(ch[i].index, ch[i].timestamp, ch[i].data,
                                      ch[i].previousHash, ch[i].nonce)
        /\ ch[i].previousHash = ch[i - 1].hash

(***************************************************************************)
(* The DigitalID mongoose model (models/DigitalID.ts).  The schema's       *)
(* regular expressions and its lowercase setter are tabulated on the       *)
(* strings the model feeds it.                                             *)
(***************************************************************************)
W1 == "0xaaaaaaaaaaaaaaaaaaaaaaaaaaaaaaaaaaaaaaa1"
W2 == "0xaaaaaaaaaaaaaaaaaaaaaaaaaaaaaaaaaaaaaaa2"

UserData(userId, name, email, role, walletAddress) ==
    [userId |-> <<userId>>, name |-> <<name>>, email |-> <<email>>,
     role |-> <<role>>, walletAddress |-> <<walletAddress>>]

\* The request bodies createDigitalID is called with.
UserInputs ==
    { UserData("u1", "Asha", "asha@x.com", "tourist", W1),
      UserData("u2", "Asha", "asha@x.com", "tourist", W2),
      UserData("u3", "Ravi", "Ravi@X.com", "guest", "0x12") }

\* email: { lowercase: true }
toLowerCase(s) == IF s = <<"Ravi@X.com">> THEN <<"ravi@x.com">> ELSE s

\* email: match /^\w+([.-]?\w+)*@\w+([.-]?\w+)*(\.\w{2,3})+$/
EmailMatches(s) == s \in {<<"asha@x.com">>, <<"ravi@x.com">>, <<"Ravi@X.com">>}

\* role: enum
RoleEnum == {<<"admin">>, <<"police">>, <<"tourism">>, <<"tourist">>}

\* walletAddress: /^0x[a-fA-F0-9]{40}$/
WalletMatches(s) == s \in {<<W1>>, <<W2>>}

\* Schema validation of a document about to be saved (setters applied).
SchemaValid(doc) ==
    /\ doc.userId # <<>> /\ doc.name # <<>> /\ doc.email # <<>>
    /\ EmailMatches(doc.email)
    /\ doc.role \in RoleEnum
    /\ WalletMatches(doc.walletAddress)
    /\ doc.hash # <<>>

\* hash: { unique: true }
HashUnique(coll, doc) == \A i \in 1..Len(coll) : coll[i].hash # doc.hash

\* Fresh identifiers: ObjectIds number the documents of the collection,
\* UUIDs are numbered by the call that draws them.
ObjectId(n) == <<"oid">> \o Str(n)
randomUUID(n) == <<"uuid">> \o Str(n)

\* The document DigitalID.create builds from its argument.
MongoDoc(id, userData, timestamp, hash, createdAt) ==
    [_id |-> id,
     userId |-> userData.userId,
     name |-> userData.name,
     email |-> toLowerCase(userData.email),
     role |-> userData.role,
     walletAddress |-> userData.walletAddress,
     timestamp |-> timestamp,
     hash |-> hash,
     verified |-> FALSE,
     createdAt |-> createdAt]

\* The object literal of the in-memory branch.
MemoryDoc(id, userData, timestamp, hash) ==
    [_id |-> id,
     userId |-> userData.userId,
     name |-> userData.name,
     email |-> userData.email,
     role |-> userData.role,
     walletAddress |-> userData.walletAddress,
     timestamp |-> timestamp,
     hash |-> hash,
     verified |-> FALSE]

\* The entry of this.digitalIDs made from a document.
Record(doc) ==
    [id |-> doc._id,
     userId |-> doc.userId,
     name |-> doc.name,
     email |-> doc.email,
     role |-> doc.role,
     walletAddress |-> doc.walletAddress,
     timestamp |-> doc.timestamp,
     hash |-> doc.hash,
     verified |-> doc.verified]

\* The hash createDigitalID computes over the request and a clock reading.
DigitalIDHash(userData, t) ==
    sha256(Stringify(<<Prop("userId", TRUE, userData.userId),
                       Prop("name", TRUE, userData.name),
                       Prop("email", TRUE, userData.email),
                       Prop("role", TRUE, userData.role),
                       Prop("walletAddress", TRUE, userData.walletAddress),
                       Prop("timestamp", FALSE, Str(t))>>))

\* The payload of the block createDigitalID appends.
DigitalIDBlockData(doc) ==
    <<Prop("type", TRUE, <<"digital_id">>),
      Prop("digitalID", TRUE, doc._id),
      Prop("hash", TRUE, doc.hash),
      Prop("verified", FALSE, IF doc.verified THEN <<"true">> ELSE <<"false">>)>>

(***************************************************************************)
(* SimpleBlockchain: the constructor and its asynchronous load.            *)
(***************************************************************************)
\* The payloads handed to addBlock: { note: "a", memo: undefined }.
Payloads ==
    { <<Prop("note", TRUE, <<"a">>), Prop("memo", FALSE, Undefined)>> }

InFlight == {k \in 1..Len(calls) : calls[k].pc \in {"sent", "dbok", "dberr"}}

\* Room for one more block under the bounds, counting the blocks that the
\* createDigitalID calls in flight will still append.
Room == (Len(chain) - 1) + Cardinality(InFlight) < MaxBlocks

\* new SimpleBlockchain(): the genesis block, empty arrays, and the part of
\* loadDigitalIDsFromDB that runs before its first await: the find is sent
\* when MongoDB is connected, else this.digitalIDs = [] and the load is done.
\* The genesis block reads the clock twice; 0 is the first reading.
LedgerInit ==
    /\ \E t2 \in Later(0) :
          /\ chain = <<createGenesisBlock(0, t2)>>
          /\ now = t2
    /\ transactions = <<>>
    /\ digitalIDs = <<>>
    /\ db = <<>>
    /\ loadPc \in {"sent", "done"}
    /\ loadResult = <<>>
    /\ calls = <<>>
    /\ mining = <<>>

\* DigitalID.find({}).sort({ createdAt: -1 }) is answered by the database.
LoadQuery ==
    /\ loadPc = "sent"
    /\ loadResult' = Reverse(db)
    /\ loadPc' = "got"
    /\ UNCHANGED <<registryVars, codecVars, minerVars>>
    /\ UNCHANGED <<chain, transactions, digitalIDs, now, db, calls>>

\* ... or the query is rejected.
LoadQueryFail ==
    /\ loadPc = "sent"
    /\ loadPc' = "failed"
    /\ UNCHANGED <<registryVars, codecVars, minerVars>>
    /\ UNCHANGED <<chain, transactions, digitalIDs, now, db,
                   loadResult, calls>>

\* loadDigitalIDsFromDB resumes after its await: assigns this.digitalIDs.
loadDigitalIDsFromDB(pc, result) ==
    IF pc = "got" THEN [i \in 1..Len(result) |-> Record(result[i])] ELSE <<>>

LoadResume ==
    /\ loadPc \in {"got", "failed"}
    /\ digitalIDs' = loadDigitalIDsFromDB(loadPc, loadResult)
    /\ loadPc' = "done"
    /\ UNCHANGED <<registryVars, codecVars, minerVars>>
    /\ UNCHANGED <<chain, transactions, now, db, loadResult, calls>>

(***************************************************************************)
(* The environment.  Time is seen only where the code reads the clock:     *)
(* every Date.now() returns a value in Later(now), the last reading or a   *)
(* later one, and becomes the last reading.  The MongoDB connection comes  *)
(* and goes on its own, so each read of mongoose.connection.readyState is  *)
(* a free choice: the constructor and every createDigitalID call may find  *)
(* it connected (1) or not.                                                *)
(***************************************************************************)

(***************************************************************************)
(* SimpleBlockchain: the public methods.                                   *)
(***************************************************************************)
AddBlock(data) ==
    /\ Room
    /\ \E t \in Later(now) :
          /\ chain' = addBlock(chain, data, t)
          /\ now' = t
    /\ UNCHANGED <<registryVars, codecVars, minerVars>>
    /\ UNCHANGED <<transactions, digitalIDs, db, loadPc, loadResult, calls>>

addTransaction(txs, id, t, transaction) ==
    Append(txs, [id |-> id, timestamp |-> t, from |-> transaction.from,
                 to |-> transaction.to, amount |-> transaction.amount])

AddTransaction ==
    /\ Len(transactions) < MaxTx
    /\ \E t \in Later(now) :
          /\ transactions' = addTransaction(transactions,
                                 randomUUID(MaxCalls + Len(transactions) + 1), t,
                                 [from |-> <<W1>>, to |-> <<W2>>, amount |-> 5])
          /\ now' = t
    /\ UNCHANGED <<registryVars, codecVars, minerVars>>
    /\ UNCHANGED <<chain, digitalIDs, db, loadPc, loadResult, calls>>

Call(pc, userData, hash, timestamp, doc, ret, conc) ==
    [pc |-> pc, input |-> userData, hash |-> hash, timestamp |-> timestamp,
     doc |-> doc, ret |-> ret, conc |-> conc]

\* Every call in flight now has run concurrently with call k.
MarkConcurrent(cs, k) ==
    [j \in 1..Len(cs) |->
        IF cs[j].pc \in {"sent", "dbok", "dberr"} /\ j # k
        THEN [cs[j] EXCEPT !.conc = @ \cup {k}] ELSE cs[j]]

\* createDigitalID finding MongoDB not connected: no await, the whole call is
\* one step.  t1, t2 and t3 are the clock readings of the hash, the record
\* and the block.
CreateInMemory(userData) ==
    /\ Len(calls) < MaxCalls
    /\ Room
    /\ \E t1 \in Later(now) : \E t2 \in Later(t1) : \E t3 \in Later(t2) :
        LET hash == DigitalIDHash(userData, t1)
            k == Len(calls) + 1
            digitalID == MemoryDoc(randomUUID(k), userData, t2, hash)
        IN  /\ digitalIDs' = Append(digitalIDs, Record(digitalID))
            /\ chain' = addBlock(chain, DigitalIDBlockData(digitalID), t3)
            /\ calls' = MarkConcurrent(
                   Append(calls, Call("returned", userData, <<>>, 0, <<>>,
                                      <<Record(digitalID)>>, InFlight)), k)
            /\ now' = t3
    /\ UNCHANGED <<registryVars, codecVars, minerVars>>
    /\ UNCHANGED <<transactions, db, loadPc, loadResult>>

\* createDigitalID finding MongoDB connected, up to its await of DigitalID.create.
CreateSend(userData) ==
    /\ Len(calls) < MaxCalls
    /\ Room
    /\ \E t1 \in Later(now) : \E t2 \in Later(t1) :
        LET hash == DigitalIDHash(userData, t1)
            k == Len(calls) + 1
        IN  /\ calls' = MarkConcurrent(
                   Append(calls, Call("sent", userData, hash, t2, <<>>, <<>>, InFlight)), k)
            /\ now' = t2
    /\ UNCHANGED <<registryVars, codecVars, minerVars>>
    /\ UNCHANGED <<chain, transactions, digitalIDs, db,
                   loadPc, loadResult>>

\* The insert of call k is executed: schema validation, then the unique index
\* on hash.  createdAt (timestamps: true) is stamped when the document is
\* built, the moment its timestamp field is read.
MongoCreate(k) ==
    /\ k \in 1..Len(calls)
    /\ calls[k].pc = "sent"
    /\ LET doc == MongoDoc(ObjectId(Len(db)), calls[k].input, calls[k].timestamp,
                           calls[k].hash, calls[k].timestamp)
       IN  IF SchemaValid(doc) /\ HashUnique(db, doc)
           THEN /\ db' = Append(db, doc)
                /\ calls' = [calls EXCEPT ![k].pc = "dbok", ![k].doc = <<doc>>]
           ELSE /\ calls' = [calls EXCEPT ![k].pc = "dberr"]
                /\ UNCHANGED db
    /\ UNCHANGED <<registryVars, codecVars, minerVars>>
    /\ UNCHANGED <<chain, transactions, digitalIDs, now, loadPc, loadResult>>

\* ... or the operation fails before reaching the collection.
MongoCreateFail(k) ==
    /\ k \in 1..Len(calls)
    /\ calls[k].pc = "sent"
    /\ calls' = [calls EXCEPT ![k].pc = "dberr"]
    /\ UNCHANGED <<registryVars, codecVars, minerVars>>
    /\ UNCHANGED <<chain, transactions, digitalIDs, now, db,
                   loadPc, loadResult>>

\* createDigitalID resumes after the await: push, addBlock, return; or the
\* catch block rethrows 'Failed to create digital ID'.
CreateResume(k) ==
    /\ k \in 1..Len(calls)
    /\ calls[k].pc \in {"dbok", "dberr"}
    /\ IF calls[k].pc = "dbok"
       THEN \E t3 \in Later(now) :
              LET digitalID == calls[k].doc[1] IN
              /\ digitalIDs' = Append(digitalIDs, Record(digitalID))
              /\ chain' = addBlock(chain, DigitalIDBlockData(digitalID), t3)
              /\ calls' = [calls EXCEPT ![k] =
                     Call("returned", calls[k].input, <<>>, 0, <<>>,
                          <<Record(digitalID)>>, calls[k].conc)]
              /\ now' = t3
       ELSE /\ calls' = [calls EXCEPT ![k] =
                     Call("threw", calls[k].input, <<>>, 0, <<>>, <<>>, calls[k].conc)]
            /\ UNCHANGED <<chain, digitalIDs, now>>
    /\ UNCHANGED <<registryVars, codecVars, minerVars>>
    /\ UNCHANGED <<transactions, db, loadPc, loadResult>>

\* verifyDigitalID(hash): the first record with that hash becomes verified.
verifyDigitalID(ids, hash) ==
    IF \E i \in 1..Len(ids) : ids[i].hash = hash
    THEN LET i == CHOOSE i \in 1..Len(ids) :
                    /\ ids[i].hash = hash
                    /\ \A j \in 1..(i - 1) : ids[j].hash # hash
         IN  [ids EXCEPT ![i].verified = TRUE]
    ELSE ids

VerifyDigitalID(hash) ==
    /\ digitalIDs' = verifyDigitalID(digitalIDs, hash)
    /\ UNCHANGED <<registryVars, codecVars, minerVars>>
    /\ UNCHANGED <<chain, transactions, now, db,
                   loadPc, loadResult, calls>>

KnownHashes == {digitalIDs[i].hash : i \in 1..Len(digitalIDs)} \cup {<<"f", "f">>}

LedgerNext ==
    \/ LoadQuery
    \/ LoadQueryFail
    \/ LoadResume
    \/ \E data \in Payloads : AddBlock(data)
    \/ AddTransaction
    \/ \E userData \in UserInputs : CreateInMemory(userData)
    \/ \E userData \in UserInputs : CreateSend(userData)
    \/ \E k \in 1..MaxCalls : MongoCreate(k)
    \/ \E k \in 1..MaxCalls : MongoCreateFail(k)
    \/ \E k \in 1..MaxCalls : CreateResume(k)
    \/ \E hash \in KnownHashes : VerifyDigitalID(hash)

(***************************************************************************)
(* The DigitalID contract (contracts/DigitalID.sol).  A transaction is a   *)
(* function from the contract's storage, the sender and the arguments to   *)
(* a revert reason ("" when it succeeds) and the storage afterwards; a     *)
(* reverted transaction leaves the storage as it found it.  A mapping is a *)
(* function defined on the keys that hold a non-zero value.  The fields    *)
(* fed from block.timestamp (createdAt, updatedAt, the events' timestamp)  *)
(* are left out.                                                           *)
(***************************************************************************)
ZeroAddress == "0x0000000000000000000000000000000000000000"

Lookup(m, key) == IF key \in DOMAIN m THEN m[key] ELSE 0

Store(m, key, v) ==
    LET keys == IF v = 0 THEN DOMAIN m \ {key} ELSE DOMAIN m \cup {key}
    IN  [x \in keys |-> IF x = key THEN v ELSE m[x]]

\* The storage of the contract.
Contract ==
    [idCounter |-> idCounter,
     identities |-> identities,
     walletToIdentity |-> walletToIdentity,
     emailToIdentity |-> emailToIdentity,
     aadhaarToIdentity |-> aadhaarToIdentity,
     passportToIdentity |-> passportToIdentity,
     events |-> events]

\* An entry of `identities` never written.
ZeroIdentity ==
    [id |-> 0, name |-> <<>>, email |-> <<>>, nationality |-> <<>>,
     aadhaarHash |-> <<>>, passportHash |-> <<>>, emergencyContact |-> <<>>,
     isActive |-> FALSE, isVerified |-> FALSE, walletAddress |-> ZeroAddress,
     roles |-> <<>>]

\* identities[_id]
IdentityAt(st, id) ==
    IF id \in 1..Len(st.identities) THEN st.identities[id] ELSE ZeroIdentity

Event(name, id, args) == [event |-> name, id |-> id, args |-> args]

Ok(st) == [revert |-> "", st |-> st]
Revert(st, reason) == [revert |-> reason, st |-> st]

\* The modifiers onlyIdentityOwner(_id) and identityExists(_id), in the
\* order the functions list them: the reason of the first that fails.
onlyIdentityOwner(st, sender, id) ==
    IF IdentityAt(st, id).walletAddress # sender THEN "Not identity owner"
    ELSE ""

identityExists(st, id) ==
    IF IdentityAt(st, id).walletAddress = ZeroAddress
    THEN "Identity does not exist" ELSE ""

OwnerModifiers(st, sender, id) ==
    IF onlyIdentityOwner(st, sender, id) # "" THEN onlyIdentityOwner(st, sender, id)
    ELSE identityExists(st, id)

onlyOwner(sender) == IF sender # owner THEN "Not the owner" ELSE ""

\* A createIdentity that does not ask whether the email is registered.
createIdentityAnyEmail(st, sender, a) ==
    IF Lookup(st.walletToIdentity, sender) # 0
    THEN Revert(st, "Identity already exists")
    ELSE IF a.name = <<>> THEN Revert(st, "Name cannot be empty")
    ELSE IF a.email = <<>> THEN Revert(st, "Email cannot be empty")
    ELSE
      LET newId == st.idCounter + 1
          newIdentity ==
            [id |-> newId, name |-> a.name, email |-> a.email,
             nationality |-> a.nationality, aadhaarHash |-> a.aadhaarHash,
             passportHash |-> a.passportHash,
             emergencyContact |-> a.emergencyContact,
             isActive |-> TRUE, isVerified |-> FALSE,
             walletAddress |-> sender, roles |-> a.roles]
      IN  Ok([idCounter |-> newId,
              identities |-> Append(st.identities, newIdentity),
              walletToIdentity |-> Store(st.walletToIdentity, sender, newId),
              emailToIdentity |-> Store(st.emailToIdentity, a.email, newId),
              aadhaarToIdentity |->
                  IF a.aadhaarHash # <<>>
                  THEN Store(st.aadhaarToIdentity, a.aadhaarHash, newId)
                  ELSE st.aadhaarToIdentity,
              passportToIdentity |->
                  IF a.passportHash # <<>>
                  THEN Store(st.passportToIdentity, a.passportHash, newId)
                  ELSE st.passportToIdentity,
              events |-> Append(st.events,
                  Event("IdentityCreated", newId, <<<<sender>>, a.name, a.email>>))])

\* createIdentity(_name, _email, _nationality, _aadhaarHash, _passportHash,
\* _emergencyContact, _roles) sent by `sender`.
createIdentity(st, sender, a) ==
    IF Lookup(st.walletToIdentity, sender) # 0
    THEN Revert(st, "Identity already exists")
    ELSE IF Lookup(st.emailToIdentity, a.email) # 0
    THEN Revert(st, "Email already registered")
    ELSE IF a.name = <<>> THEN Revert(st, "Name cannot be empty")
    ELSE IF a.email = <<>> THEN Revert(st, "Email cannot be empty")
    ELSE
      LET newId == st.idCounter + 1
          newIdentity ==
            [id |-> newId, name |-> a.name, email |-> a.email,
             nationality |-> a.nationality, aadhaarHash |-> a.aadhaarHash,
             passportHash |-> a.passportHash,
             emergencyContact |-> a.emergencyContact,
             isActive |-> TRUE, isVerified |-> FALSE,
             walletAddress |-> sender, roles |-> a.roles]
      IN  Ok([idCounter |-> newId,
              identities |-> Append(st.identities, newIdentity),
              walletToIdentity |-> Store(st.walletToIdentity, sender, newId),
              emailToIdentity |-> Store(st.emailToIdentity, a.email, newId),
              aadhaarToIdentity |->
                  IF a.aadhaarHash # <<>>
                  THEN Store(st.aadhaarToIdentity, a.aadhaarHash, newId)
                  ELSE st.aadhaarToIdentity,
              passportToIdentity |->
                  IF a.passportHash # <<>>
                  THEN Store(st.passportToIdentity, a.passportHash, newId)
                  ELSE st.passportToIdentity,
              events |-> Append(st.events,
                  Event("IdentityCreated", newId, <<<<sender>>, a.name, a.email>>))])

\* An updateIdentity that moves the email without asking whether it is taken.
updateIdentityUnchecked(st, sender, id, u) ==
    IF OwnerModifiers(st, sender, id) # ""
    THEN Revert(st, OwnerModifiers(st, sender, id))
    ELSE
      LET identity == st.identities[id]
          emails == IF identity.email # u.email
                    THEN Store(Store(st.emailToIdentity, identity.email, 0),
                               u.email, id)
                    ELSE st.emailToIdentity
      IN  Ok([st EXCEPT
                !.emailToIdentity = emails,
                !.identities[id].name = u.name,
                !.identities[id].email = u.email,
                !.identities[id].nationality = u.nationality,
                !.identities[id].emergencyContact = u.emergencyContact,
                !.events = Append(@, Event("IdentityUpdated", id, <<<<sender>>>>))])

\* An updateIdentity that leaves the old email in the index.
updateIdentityKeepsOldEmail(st, sender, id, u) ==
    IF OwnerModifiers(st, sender, id) # ""
    THEN Revert(st, OwnerModifiers(st, sender, id))
    ELSE
      LET identity == st.identities[id] IN
      IF identity.email # u.email /\ Lookup(st.emailToIdentity, u.email) # 0
      THEN Revert(st, "Email already registered")
      ELSE
        Ok([st EXCEPT
              !.emailToIdentity = Store(@, u.email, id),
              !.identities[id].name = u.name,
              !.identities[id].email = u.email,
              !.identities[id].nationality = u.nationality,
              !.identities[id].emergencyContact = u.emergencyContact,
              !.events = Append(@, Event("IdentityUpdated", id, <<<<sender>>>>))])

\* updateIdentity(_id, _name, _email, _nationality, _emergencyContact)
updateIdentity(st, sender, id, u) ==
    IF OwnerModifiers(st, sender, id) # ""
    THEN Revert(st, OwnerModifiers(st, sender, id))
    ELSE
      LET identity == st.identities[id] IN
      IF identity.email # u.email /\ Lookup(st.emailToIdentity, u.email) # 0
      THEN Revert(st, "Email already registered")
      ELSE
        LET emails == IF identity.email # u.email
                      THEN Store(Store(st.emailToIdentity, identity.email, 0),
                                 u.email, id)
                      ELSE st.emailToIdentity
        IN  Ok([st EXCEPT
                  !.emailToIdentity = emails,
                  !.identities[id].name = u.name,
                  !.identities[id].email = u.email,
                  !.identities[id].nationality = u.nationality,
                  !.identities[id].emergencyContact = u.emergencyContact,
                  !.events = Append(@, Event("IdentityUpdated", id, <<<<sender>>>>))])

\* A verifyIdentity without the onlyOwner modifier.
verifyIdentityByAnyone(st, sender, id) ==
    IF identityExists(st, id) # "" THEN Revert(st, identityExists(st, id))
    ELSE Ok([st EXCEPT
               !.identities[id].isVerified = TRUE,
               !.events = Append(@, Event("IdentityVerified", id, <<<<sender>>>>))])

\* verifyIdentity(_id): onlyOwner, then identityExists.
verifyIdentity(st, sender, id) ==
    IF onlyOwner(sender) # "" THEN Revert(st, onlyOwner(sender))
    ELSE IF identityExists(st, id) # "" THEN Revert(st, identityExists(st, id))
    ELSE Ok([st EXCEPT
               !.identities[id].isVerified = TRUE,
               !.events = Append(@, Event("IdentityVerified", id, <<<<sender>>>>))])

\* A deactivateIdentity that deletes the identity and frees its wallet.
deactivateIdentityDeleting(st, sender, id) ==
    IF OwnerModifiers(st, sender, id) # ""
    THEN Revert(st, OwnerModifiers(st, sender, id))
    ELSE Ok([st EXCEPT
               !.identities[id] = ZeroIdentity,
               !.walletToIdentity = Store(@, sender, 0),
               !.events = Append(@, Event("IdentityDeactivated", id, <<<<sender>>>>))])

\* deactivateIdentity(_id)
deactivateIdentity(st, sender, id) ==
    IF OwnerModifiers(st, sender, id) # ""
    THEN Revert(st, OwnerModifiers(st, sender, id))
    ELSE Ok([st EXCEPT
               !.identities[id].isActive = FALSE,
               !.events = Append(@, Event("IdentityDeactivated", id, <<<<sender>>>>))])

\* addRole(_id, _role)
addRole(st, sender, id, role) ==
    IF OwnerModifiers(st, sender, id) # ""
    THEN Revert(st, OwnerModifiers(st, sender, id))
    ELSE Ok([st EXCEPT
               !.identities[id].roles = Append(@, role),
               !.events = Append(@, Event("RoleAdded", id, <<role>>))])

\* removeRole(_id, _roleIndex): the last role is moved into the place of the
\* removed one and the array popped; the event then reads roles[_roleIndex],
\* which is out of bounds (Panic 0x32, a revert) when the index was the last.
removeRole(st, sender, id, roleIndex) ==
    IF OwnerModifiers(st, sender, id) # ""
    THEN Revert(st, OwnerModifiers(st, sender, id))
    ELSE
      LET roles == st.identities[id].roles IN
      IF ~(roleIndex < Len(roles)) THEN Revert(st, "Invalid role index")
      ELSE
        LET moved == [roles EXCEPT ![roleIndex + 1] = roles[Len(roles)]]
            popped == SubSeq(moved, 1, Len(moved) - 1)
        IN  IF ~(roleIndex < Len(popped)) THEN Revert(st, "Panic(0x32)")
            ELSE Ok([st EXCEPT
                       !.identities[id].roles = popped,
                       !.events = Append(@,
                           Event("RoleRemoved", id, <<popped[roleIndex + 1]>>))])

\* getTotalIdentities()
getTotalIdentities(st) == st.idCounter

\* The views BlockchainService reads through: the identity, or the reason of
\* the revert.
getIdentityById(st, id) ==
    IF identityExists(st, id) # "" THEN [revert |-> identityExists(st, id), identity |-> ZeroIdentity]
    ELSE [revert |-> "", identity |-> IdentityAt(st, id)]

getIdentityByWallet(st, walletAddress) ==
    IF Lookup(st.walletToIdentity, walletAddress) = 0
    THEN [revert |-> "Identity not found", identity |-> ZeroIdentity]
    ELSE [revert |-> "", identity |-> st.identities[Lookup(st.walletToIdentity, walletAddress)]]

(***************************************************************************)
(* The environment of the contract: the accounts that send transactions    *)
(* and what they send.  ServiceWallet is the account of the private key    *)
(* BlockchainService signs every transaction with.                         *)
(***************************************************************************)
Senders == {W1, W2}
ServiceWallet == W1

Ids == 1..Cardinality(Senders)

E1 == <<"asha@x.com">>
E2 == <<"ravi@x.com">>

CreateIdentityRequest(name, email, aadhaar, passport, roles) ==
    [name |-> name, email |-> email, nationality |-> <<"IN">>,
     aadhaarHash |-> aadhaar, passportHash |-> passport,
     emergencyContact |-> <<"112">>, roles |-> roles]

\* Request bodies of createDigitalIdentity, identity numbers in the clear.
CreateRequests ==
    { CreateIdentityRequest(<<"Asha">>, E1, <<"1", "2">>, <<>>,
                            <<<<"tourist">>, <<"guide">>>>),
      CreateIdentityRequest(<<"Ravi">>, E2, <<"1", "2">>, <<"P", "7">>, <<>>),
      CreateIdentityRequest(<<"Ravi">>, E1, <<>>, <<>>, <<>>),
      CreateIdentityRequest(<<>>, E2, <<>>, <<>>, <<>>),
      CreateIdentityRequest(<<"Asha">>, <<>>, <<>>, <<>>, <<>>) }

\* DigitalIDService.hashData
hashData(data) == sha256(data)

\* hashedRequest of createDigitalIdentity
HashedRequest(request) ==
    [request EXCEPT
        !.aadhaarHash = IF request.aadhaarHash # <<>>
                        THEN hashData(request.aadhaarHash) ELSE <<>>,
        !.passportHash = IF request.passportHash # <<>>
                         THEN hashData(request.passportHash) ELSE <<>>]

\* The arguments accounts send to createIdentity directly.
CreateArgs == {HashedRequest(request) : request \in CreateRequests}

UpdateIdentityRequest(name, email) ==
    [name |-> name, email |-> email, nationality |-> <<"IN">>,
     emergencyContact |-> <<"112">>]

UpdateRequests ==
    { UpdateIdentityRequest(<<"Asha K">>, E1),
      UpdateIdentityRequest(<<"Asha">>, E2) }

Roles == {<<"tourist">>, <<"guide">>}

RoleIndexes == 0..MaxRoles

\* Room in the event log for the event of one more transaction.
EventRoom == Len(events) < MaxEvents

\* The storage after a transaction.
SetContract(st) ==
    /\ idCounter' = st.idCounter
    /\ identities' = st.identities
    /\ walletToIdentity' = st.walletToIdentity
    /\ emailToIdentity' = st.emailToIdentity
    /\ aadhaarToIdentity' = st.aadhaarToIdentity
    /\ passportToIdentity' = st.passportToIdentity
    /\ events' = st.events

(***************************************************************************)
(* Transactions accounts send to the contract with their own keys.         *)
(***************************************************************************)
CreateIdentity(sender, a) ==
    /\ EventRoom
    /\ SetContract(createIdentity(Contract, sender, a).st)
    /\ UNCHANGED <<owner, verificationQueue, tasks>>
    /\ UNCHANGED <<ledgerVars, codecVars, minerVars>>

UpdateIdentity(sender, id, u) ==
    /\ EventRoom
    /\ SetContract(updateIdentity(Contract, sender, id, u).st)
    /\ UNCHANGED <<owner, verificationQueue, tasks>>
    /\ UNCHANGED <<ledgerVars, codecVars, minerVars>>

VerifyIdentity(sender, id) ==
    /\ EventRoom
    /\ SetContract(verifyIdentity(Contract, sender, id).st)
    /\ UNCHANGED <<owner, verificationQueue, tasks>>
    /\ UNCHANGED <<ledgerVars, codecVars, minerVars>>

DeactivateIdentity(sender, id) ==
    /\ EventRoom
    /\ SetContract(deactivateIdentity(Contract, sender, id).st)
    /\ UNCHANGED <<owner, verificationQueue, tasks>>
    /\ UNCHANGED <<ledgerVars, codecVars, minerVars>>

AddRole(sender, id, role) ==
    /\ EventRoom
    /\ Len(IdentityAt(Contract, id).roles) < MaxRoles
    /\ SetContract(addRole(Contract, sender, id, role).st)
    /\ UNCHANGED <<owner, verificationQueue, tasks>>
    /\ UNCHANGED <<ledgerVars, codecVars, minerVars>>

RemoveRole(sender, id, roleIndex) ==
    /\ EventRoom
    /\ SetContract(removeRole(Contract, sender, id, roleIndex).st)
    /\ UNCHANGED <<owner, verificationQueue, tasks>>
    /\ UNCHANGED <<ledgerVars, codecVars, minerVars>>

(***************************************************************************)
(* DigitalIDService over BlockchainService.  A call is a task: it reads    *)
(* the contract, sends its transaction from ServiceWallet and resumes      *)
(* after the transaction is mined, other transactions passing in between.  *)
(***************************************************************************)
Task(op, id, walletAddress, arg, pc, sent, error, ret) ==
    [op |-> op, id |-> id, walletAddress |-> walletAddress, arg |-> arg,
     pc |-> pc, sent |-> sent, error |-> error, ret |-> ret]

\* The prefix the catch block of each DigitalIDService method puts before
\* the message of the error it rethrows.
ServicePrefix(op) ==
    CASE op = "create" -> "Failed to create digital identity: "
      [] op = "update" -> "Failed to update digital identity: "
      [] op = "verify" -> "Failed to verify digital identity: "
      [] op = "deactivate" -> "Failed to deactivate digital identity: "
      [] op = "addRole" -> "Failed to add role: "
      [] op = "removeRole" -> "Failed to remove role: "

\* ... and the one of the BlockchainService method underneath.
ChainPrefix(op) ==
    CASE op = "create" -> "Blockchain transaction failed: "
      [] op = "update" -> "Blockchain transaction failed: "
      [] op = "verify" -> "Failed to verify identity: "
      [] op = "deactivate" -> "Failed to deactivate identity: "
      [] op = "addRole" -> "Failed to add role: "
      [] op = "removeRole" -> "Failed to remove role: "

Unauthorized == "Unauthorized: Not the identity owner"

\* Room in the log of calls for one more call of the service.
TaskRoom(n) == Len(tasks) < n

\* An ownership check that lets every caller through.
VerifyOwnershipOpen(st, id, walletAddress) == TRUE

\* "Verify ownership": getIdentityById(id) gave an identity (not null on
\* 'Identity does not exist') and its walletAddress is the caller's.
VerifyOwnership(st, id, walletAddress) ==
    /\ getIdentityById(st, id).revert = ""
    /\ getIdentityById(st, id).identity.walletAddress = walletAddress

\* The start of updateDigitalIdentity, deactivateDigitalIdentity,
\* addRoleToIdentity and removeRoleFromIdentity, up to the transaction.
Checked(op, id, walletAddress, arg) ==
    /\ tasks' = Append(tasks,
         IF VerifyOwnership(Contract, id, walletAddress)
         THEN Task(op, id, walletAddress, arg, "checked", FALSE, <<>>, <<>>)
         ELSE Task(op, id, walletAddress, arg, "threw", FALSE,
                   <<ServicePrefix(op), Unauthorized>>, <<>>))
    /\ UNCHANGED <<owner, idCounter, identities, walletToIdentity,
                   emailToIdentity, aadhaarToIdentity, passportToIdentity,
                   events, verificationQueue>>
    /\ UNCHANGED <<ledgerVars, codecVars, minerVars>>

UpdateDigitalIdentity(id, request, walletAddress) ==
    Checked("update", id, walletAddress, <<request>>)

DeactivateDigitalIdentity(id, walletAddress) ==
    Checked("deactivate", id, walletAddress, <<>>)

AddRoleToIdentity(id, role, walletAddress) ==
    Checked("addRole", id, walletAddress, <<role>>)

RemoveRoleFromIdentity(id, roleIndex, walletAddress) ==
    Checked("removeRole", id, walletAddress, <<roleIndex>>)

\* createDigitalIdentity and verifyDigitalIdentity send their transaction
\* without a check before it.
CreateDigitalIdentity(request, walletAddress) ==
    /\ tasks' = Append(tasks, Task("create", 0, walletAddress,
                                   <<HashedRequest(request)>>, "checked",
                                   FALSE, <<>>, <<>>))
    /\ UNCHANGED <<owner, idCounter, identities, walletToIdentity,
                   emailToIdentity, aadhaarToIdentity, passportToIdentity,
                   events, verificationQueue>>
    /\ UNCHANGED <<ledgerVars, codecVars, minerVars>>

VerifyDigitalIdentity(id, verifierAddress) ==
    /\ tasks' = Append(tasks, Task("verify", id, verifierAddress, <<>>,
                                   "checked", FALSE, <<>>, <<>>))
    /\ UNCHANGED <<owner, idCounter, identities, walletToIdentity,
                   emailToIdentity, aadhaarToIdentity, passportToIdentity,
                   events, verificationQueue>>
    /\ UNCHANGED <<ledgerVars, codecVars, minerVars>>

\* The transaction of a task, as BlockchainService sends it.
TaskTx(st, t) ==
    CASE t.op = "create" -> createIdentity(st, ServiceWallet, t.arg[1])
      [] t.op = "update" -> updateIdentity(st, ServiceWallet, t.id, t.arg[1])
      [] t.op = "verify" -> verifyIdentity(st, ServiceWallet, t.id)
      [] t.op = "deactivate" -> deactivateIdentity(st, ServiceWallet, t.id)
      [] t.op = "addRole" -> addRole(st, ServiceWallet, t.id, t.arg[1])
      [] t.op = "removeRole" -> removeRole(st, ServiceWallet, t.id, t.arg[1])

\* The transaction of task k is mined or reverts.  deactivate, addRole and
\* removeRole return the transaction hash with nothing left to do.
SendTx(k) ==
    /\ k \in 1..Len(tasks)
    /\ tasks[k].pc = "checked"
    /\ EventRoom
    /\ tasks[k].op = "addRole" =>
           Len(IdentityAt(Contract, tasks[k].id).roles) < MaxRoles
    /\ LET t == tasks[k]
           r == TaskTx(Contract, t)
       IN  /\ SetContract(r.st)
           /\ tasks' = [tasks EXCEPT ![k] =
                 IF r.revert # ""
                 THEN [t EXCEPT !.pc = "threw", !.sent = TRUE,
                         !.error = <<ServicePrefix(t.op), ChainPrefix(t.op), r.revert>>]
                 ELSE [t EXCEPT !.sent = TRUE,
                         !.pc = IF t.op \in {"create", "update", "verify"}
                                THEN "mined" ELSE "returned"]]
    /\ UNCHANGED <<owner, verificationQueue>>
    /\ UNCHANGED <<ledgerVars, codecVars, minerVars>>

Pending(id) ==
    [identityId |-> id, verifierAddress |-> "", status |-> "pending"]

\* The rest of createDigitalIdentity, updateDigitalIdentity and
\* verifyDigitalIdentity after their transaction.
Resume(k) ==
    /\ k \in 1..Len(tasks)
    /\ tasks[k].pc = "mined"
    /\ LET t == tasks[k]
           read == IF t.op = "create"
                   THEN getIdentityByWallet(Contract, t.walletAddress)
                   ELSE getIdentityById(Contract, t.id)
       IN  CASE t.op = "create" ->
                  IF read.revert # ""
                  THEN /\ tasks' = [tasks EXCEPT ![k] = [t EXCEPT !.pc = "threw",
                             !.error = <<ServicePrefix(t.op),
                                         "Failed to retrieve created identity">>]]
                       /\ UNCHANGED verificationQueue
                  ELSE /\ verificationQueue' =
                             [x \in DOMAIN verificationQueue \cup {read.identity.id} |->
                                 IF x = read.identity.id THEN Pending(x)
                                 ELSE verificationQueue[x]]
                       /\ tasks' = [tasks EXCEPT ![k] = [t EXCEPT !.pc = "returned",
                             !.ret = <<read.identity>>]]
             [] t.op = "update" ->
                  /\ tasks' = [tasks EXCEPT ![k] =
                        IF read.revert # ""
                        THEN [t EXCEPT !.pc = "threw",
                                !.error = <<ServicePrefix(t.op),
                                            "Failed to retrieve updated identity">>]
                        ELSE [t EXCEPT !.pc = "returned", !.ret = <<read.identity>>]]
                  /\ UNCHANGED verificationQueue
             [] t.op = "verify" ->
                  /\ verificationQueue' =
                        IF t.id \in DOMAIN verificationQueue
                        THEN [verificationQueue EXCEPT ![t.id] =
                                [@ EXCEPT !.status = "approved",
                                          !.verifierAddress = t.walletAddress]]
                        ELSE verificationQueue
                  /\ tasks' = [tasks EXCEPT ![k] = [t EXCEPT !.pc = "returned"]]
    /\ UNCHANGED <<owner, idCounter, identities, walletToIdentity,
                   emailToIdentity, aadhaarToIdentity, passportToIdentity,
                   events>>
    /\ UNCHANGED <<ledgerVars, codecVars, minerVars>>

RegistryNext ==
    \/ \E sender \in Senders, a \in CreateArgs : CreateIdentity(sender, a)
    \/ \E sender \in Senders, id \in Ids, u \in UpdateRequests :
          UpdateIdentity(sender, id, u)
    \/ \E sender \in Senders, id \in Ids : VerifyIdentity(sender, id)
    \/ \E sender \in Senders, id \in Ids : DeactivateIdentity(sender, id)
    \/ \E sender \in Senders, id \in Ids, role \in Roles : AddRole(sender, id, role)
    \/ \E sender \in Senders, id \in Ids, roleIndex \in RoleIndexes :
          RemoveRole(sender, id, roleIndex)
    \/ /\ TaskRoom(MaxTasks)
       /\ \E request \in CreateRequests, w \in Senders :
             CreateDigitalIdentity(request, w)
    \/ /\ TaskRoom(MaxTasks)
       /\ \E id \in Ids, request \in UpdateRequests, w \in Senders :
             UpdateDigitalIdentity(id, request, w)
    \/ /\ TaskRoom(MaxTasks)
       /\ \E id \in Ids, w \in Senders : VerifyDigitalIdentity(id, w)
    \/ /\ TaskRoom(MaxTasks)
       /\ \E id \in Ids, w \in Senders : DeactivateDigitalIdentity(id, w)
    \/ /\ TaskRoom(MaxTasks)
       /\ \E id \in Ids, role \in Roles, w \in Senders :
             AddRoleToIdentity(id, role, w)
    \/ /\ TaskRoom(MaxTasks)
       /\ \E id \in Ids, roleIndex \in RoleIndexes, w \in Senders :
             RemoveRoleFromIdentity(id, roleIndex, w)
    \/ \E k \in 1..Len(tasks) : SendTx(k)
    \/ \E k \in 1..Len(tasks) : Resume(k)

\* The contract as deployed by `deployer`, and a DigitalIDService just built.
RegistryInit(deployer) ==
    /\ owner = deployer
    /\ idCounter = 0
    /\ identities = <<>>
    /\ walletToIdentity = <<>>
    /\ emailToIdentity = <<>>
    /\ aadhaarToIdentity = <<>>
    /\ passportToIdentity = <<>>
    /\ events = <<>>
    /\ verificationQueue = <<>>
    /\ tasks = <<>>

\* A SimpleBlockchain built while MongoDB was not connected.
LedgerIdle ==
    /\ chain = <<createGenesisBlock(0, 0)>>
    /\ now = 0
    /\ transactions = <<>>
    /\ digitalIDs = <<>>
    /\ db = <<>>
    /\ loadPc = "done"
    /\ loadResult = <<>>
    /\ calls = <<>>
    /\ mining = <<>>

\* No QR string generated, validated or parsed yet.
CodecIdle ==
    /\ qr = [text |-> <<>>, source |-> <<>>]
    /\ qrCall = <<>>

\* The contract deployed by any of the accounts, next to an idle ledger.
InitRegistry ==
    /\ LedgerIdle
    /\ \E deployer \in Senders : RegistryInit(deployer)
    /\ CodecIdle

SpecRegistry == InitRegistry /\ [][RegistryNext]_vars

\* The ledger just constructed, next to a contract BlockchainService's
\* account deployed.
InitLedger == LedgerInit /\ RegistryInit(ServiceWallet) /\ CodecIdle

SpecLedger == InitLedger /\ [][LedgerNext]_vars

(***************************************************************************)
(* DigitalIDService as the only sender of transactions: several calls in   *)
(* flight at once, each awaiting its transaction while the others run.     *)
(***************************************************************************)
\* What the callers of the service ask for.
ServiceCreateRequests ==
    { CreateIdentityRequest(<<"Asha">>, E1, <<"1", "2">>, <<>>,
                            <<<<"tourist">>, <<"guide">>>>) }

ServiceUpdateRequests ==
    { UpdateIdentityRequest(<<"Asha K">>, E1),
      UpdateIdentityRequest(<<"Asha">>, E2) }

ServiceRoles == {<<"tourist">>}

ServiceRoleIndexes == {0}

\* Ids callers name: the one identity ServiceWallet can hold.
ServiceIds == {1}

ServiceNext ==
    \/ /\ TaskRoom(MaxServiceTasks)
       /\ \E request \in ServiceCreateRequests, w \in Senders :
             CreateDigitalIdentity(request, w)
    \/ /\ TaskRoom(MaxServiceTasks)
       /\ \E id \in ServiceIds, request \in ServiceUpdateRequests, w \in Senders :
             UpdateDigitalIdentity(id, request, w)
    \/ /\ TaskRoom(MaxServiceTasks)
       /\ \E id \in ServiceIds, w \in Senders : VerifyDigitalIdentity(id, w)
    \/ /\ TaskRoom(MaxServiceTasks)
       /\ \E id \in ServiceIds, w \in Senders : DeactivateDigitalIdentity(id, w)
    \/ /\ TaskRoom(MaxServiceTasks)
       /\ \E id \in ServiceIds, role \in ServiceRoles, w \in Senders :
             AddRoleToIdentity(id, role, w)
    \/ /\ TaskRoom(MaxServiceTasks)
       /\ \E id \in ServiceIds, roleIndex \in ServiceRoleIndexes, w \in Senders :
             RemoveRoleFromIdentity(id, roleIndex, w)
    \/ \E k \in 1..Len(tasks) : SendTx(k)
    \/ \E k \in 1..Len(tasks) : Resume(k)

SpecService == InitRegistry /\ [][ServiceNext]_vars

(***************************************************************************)
(* QR strings.  DigitalIDService.generateQRCodeData / validateQRCodeData   *)
(* and the QRService generators / parseQRCode, with the string passing     *)
(* through the hands of its holder in between.                             *)
(***************************************************************************)
ContractAddress == "0xcccccccccccccccccccccccccccccccccccccccc"

\* new Date().toISOString() at clock reading t.
toISOString(t) == <<"1970-01-01T00:00:00.00">> \o Str(t) \o <<"Z">>

\* The object generateQRCodeData stringifies.
IdentityQRData(identity, t) ==
    <<Prop("id", FALSE, Str(identity.id)),
      Prop("name", TRUE, identity.name),
      Prop("email", TRUE, identity.email),
      Prop("walletAddress", TRUE, <<identity.walletAddress>>),
      Prop("isVerified", FALSE,
           IF identity.isVerified THEN <<"true">> ELSE <<"false">>),
      Prop("roles", FALSE, StringifyArray(identity.roles)),
      Prop("contractAddress", TRUE, <<ContractAddress>>),
      Prop("timestamp", TRUE, toISOString(t))>>

generateQRCodeData(identity, t) == Stringify(IdentityQRData(identity, t))

\* The QRCodeData object literals of the three QRService generators.
DigitalIDQRData(userId, walletAddress, t, additionalData) ==
    <<Prop("userId", TRUE, userId),
      Prop("walletAddress", TRUE, walletAddress),
      Prop("timestamp", FALSE, Str(t)),
      Prop("type", TRUE, <<"digital_id">>),
      Prop("data", FALSE, additionalData)>>

WalletQRData(walletAddress, t) ==
    <<Prop("userId", TRUE, <<>>),
      Prop("walletAddress", TRUE, walletAddress),
      Prop("timestamp", FALSE, Str(t)),
      Prop("type", TRUE, <<"wallet">>)>>

TransactionQRData(transactionHash, walletAddress, t) ==
    <<Prop("userId", TRUE, <<>>),
      Prop("walletAddress", TRUE, walletAddress),
      Prop("timestamp", FALSE, Str(t)),
      Prop("type", TRUE, <<"transaction">>),
      Prop("data", FALSE,
           Stringify(<<Prop("transactionHash", TRUE, transactionHash)>>))>>

\* The body of validateQRCodeData's try block: the error it raises ("" when
\* none) or what it returns.  `reachable` is whether the contract answers
\* the getIdentityById call.
TryValidate(st, qrData, reachable) ==
    LET data == JSONparse(qrData)
        id == Get(data.props, "id")
        walletAddress == Get(data.props, "walletAddress")
        Returns(valid, identity) ==
            [error |-> "", valid |-> valid, identity |-> identity]
        Throws(error) == [error |-> error, valid |-> FALSE, identity |-> <<>>]
    IN  IF data.kind = "error" THEN Throws("SyntaxError")
        ELSE IF data.kind = "null" THEN Throws("TypeError")
        ELSE IF ~Truthy(id) \/ ~Truthy(walletAddress)
        THEN Returns(FALSE, <<>>)
        ELSE IF ~IsNumber(id[1].v) \/ ~reachable
        THEN Throws("Failed to fetch identity")
        ELSE LET read == getIdentityById(st, Num(id[1].v)) IN
             IF read.revert # ""
                \/ walletAddress[1] # Prop("walletAddress", TRUE,
                                           <<read.identity.walletAddress>>)
             THEN Returns(FALSE, <<>>)
             ELSE Returns(TRUE, <<read.identity>>)

\* A validateQRCodeData that does not compare the wallet addresses.
validateQRCodeDataAnyWallet(st, qrData, reachable) ==
    LET data == JSONparse(qrData)
        id == Get(data.props, "id")
        read == getIdentityById(st, Num(id[1].v))
    IN  IF /\ data.kind = "object"
           /\ Truthy(id) /\ Truthy(Get(data.props, "walletAddress"))
           /\ IsNumber(id[1].v) /\ reachable
           /\ read.revert = ""
        THEN [threw |-> FALSE, valid |-> TRUE, identity |-> <<read.identity>>]
        ELSE [threw |-> FALSE, valid |-> FALSE, identity |-> <<>>]

\* validateQRCodeData(qrData): the catch block turns every error into
\* { valid: false }.
validateQRCodeData(st, qrData, reachable) ==
    LET r == TryValidate(st, qrData, reachable) IN
    IF r.error # ""
    THEN [threw |-> FALSE, valid |-> FALSE, identity |-> <<>>]
    ELSE [threw |-> FALSE, valid |-> r.valid, identity |-> r.identity]

\* QRService.parseQRCode(qrString): the object, or nothing (null).
parseQRCode(qrString) ==
    LET qrData == JSONparse(qrString) IN
    IF qrData.kind \in {"error", "null"} THEN <<>>
    ELSE IF /\ ~Truthy(Get(qrData.props, "userId"))
            /\ ~Truthy(Get(qrData.props, "walletAddress"))
    THEN <<>>
    ELSE <<qrData.props>>

\* What the callers of the generators pass.
QRUserIds == {<<>>, <<"u1">>}
QRWallets == {<<>>, <<W1>>}
QRPayloads == {Undefined, Stringify(<<Prop("note", TRUE, <<"a">>)>>)}
QRTransactionHashes == {<<"0xabc">>}

\* The text with the atom after `key` (and its opening quote, if any)
\* replaced by `atom`.
Alter(text, key, atom) ==
    [i \in 1..Len(text) |->
        IF \/ i >= 2 /\ text[i - 1] = KeyAtom(key) /\ text[i] # Quote
           \/ /\ i >= 3 /\ text[i - 2] = KeyAtom(key) /\ text[i - 1] = Quote
              /\ text[i] # Quote
        THEN atom ELSE text[i]]

\* Strings typed in by hand.
TypedIn ==
    { <<"null">>, <<"5">>, <<"{", "}">>, <<"{">>,
      Stringify(<<Prop("userId", TRUE, <<"u1">>)>>),
      Stringify(<<Prop("id", FALSE, <<"1">>)>>),
      Stringify(<<Prop("id", TRUE, <<"x">>),
                  Prop("walletAddress", TRUE, <<W1>>)>>) }

\* What the holder of a QR string may present instead of it.
Altered(text) ==
    { Alter(text, "walletAddress", W2), Alter(text, "walletAddress", W1),
      Alter(text, "id", "2"), Alter(text, "type", "bogus"),
      SubSeq(text, 1, Len(text) - 1) } \ {text}

Generated(gen, x) == [text |-> Stringify(x), source |-> <<[gen |-> gen, x |-> x]>>]

\* POST /identity/:id/qr : the identity read from the contract, then
\* generateQRCodeData.
GenerateQRCodeData(id) ==
    /\ getIdentityById(Contract, id).revert = ""
    /\ \E t \in Later(now) :
          /\ qr' = Generated("generateQRCodeData",
                       IdentityQRData(getIdentityById(Contract, id).identity, t))
          /\ now' = t
    /\ qrCall' = <<>>
    /\ UNCHANGED <<registryVars, minerVars>>
    /\ UNCHANGED <<chain, transactions, digitalIDs, db, loadPc, loadResult, calls>>

GenerateDigitalIDQR(userId, walletAddress, additionalData) ==
    /\ \E t \in Later(now) :
          /\ qr' = Generated("generateDigitalIDQR",
                       DigitalIDQRData(userId, walletAddress, t, additionalData))
          /\ now' = t
    /\ qrCall' = <<>>
    /\ UNCHANGED <<registryVars, minerVars>>
    /\ UNCHANGED <<chain, transactions, digitalIDs, db, loadPc, loadResult, calls>>

GenerateWalletQR(walletAddress) ==
    /\ \E t \in Later(now) :
          /\ qr' = Generated("generateWalletQR", WalletQRData(walletAddress, t))
          /\ now' = t
    /\ qrCall' = <<>>
    /\ UNCHANGED <<registryVars, minerVars>>
    /\ UNCHANGED <<chain, transactions, digitalIDs, db, loadPc, loadResult, calls>>

GenerateTransactionQR(transactionHash, walletAddress) ==
    /\ \E t \in Later(now) :
          /\ qr' = Generated("generateTransactionQR",
                       TransactionQRData(transactionHash, walletAddress, t))
          /\ now' = t
    /\ qrCall' = <<>>
    /\ UNCHANGED <<registryVars, minerVars>>
    /\ UNCHANGED <<chain, transactions, digitalIDs, db, loadPc, loadResult, calls>>

\* What the holder of the QR string at hand may present: the string, the
\* string altered, or one typed in.
Presented == ({qr.text} \cup Altered(qr.text) \cup TypedIn) \ {<<>>}

\* The object a presented string was generated from, if it is the string
\* at hand.
SourceOf(text) == IF text = qr.text THEN qr.source ELSE <<>>

\* POST /qr/validate.  The call reads the contract once, at its await.
ValidateQRCodeData(qrData) ==
    /\ \E reachable \in BOOLEAN :
          qrCall' = <<[op |-> "validateQRCodeData", input |-> qrData,
                       source |-> SourceOf(qrData), reachable |-> reachable,
                       result |-> validateQRCodeData(Contract, qrData,
                                                     reachable)]>>
    /\ UNCHANGED qr
    /\ UNCHANGED <<ledgerVars, registryVars, minerVars>>

\* POST /parse
ParseQRCode(qrString) ==
    /\ qrCall' = <<[op |-> "parseQRCode", input |-> qrString,
                    source |-> SourceOf(qrString), reachable |-> TRUE,
                    result |-> [qrData |-> parseQRCode(qrString)]]>>
    /\ UNCHANGED qr
    /\ UNCHANGED <<ledgerVars, registryVars, minerVars>>

\* The identities the strings are about register themselves.
CodecCreateArgs ==
    { HashedRequest(CreateIdentityRequest(<<"Asha">>, E1, <<"1", "2">>, <<>>,
                                          <<<<"tourist">>, <<"guide">>>>)),
      HashedRequest(CreateIdentityRequest(<<"Ravi">>, E2, <<>>, <<>>, <<>>)) }

CodecNext ==
    \/ \E sender \in Senders, a \in CodecCreateArgs : CreateIdentity(sender, a)
    \/ \E id \in Ids : GenerateQRCodeData(id)
    \/ \E userId \in QRUserIds, walletAddress \in QRWallets,
          additionalData \in QRPayloads :
          GenerateDigitalIDQR(userId, walletAddress, additionalData)
    \/ \E walletAddress \in QRWallets : GenerateWalletQR(walletAddress)
    \/ \E transactionHash \in QRTransactionHashes, walletAddress \in QRWallets :
          GenerateTransactionQR(transactionHash, walletAddress)
    \/ \E qrData \in Presented : ValidateQRCodeData(qrData)
    \/ \E qrString \in Presented : ParseQRCode(qrString)

\* The contract deployed by BlockchainService's account, no QR string yet.
InitCodec == LedgerIdle /\ RegistryInit(ServiceWallet) /\ CodecIdle

SpecCodec == InitCodec /\ [][CodecNext]_vars

(***************************************************************************)
(* Properties of the hash chain (SpecLedger).                              *)
(***************************************************************************)

\* C4: the genesis block has index 0 and previousHash "0", and every later
\* block carries the hash of the block before it as previousHash and that
\* block's index plus one as index.
ChainLinked ==
    /\ chain[1].index = 0
    /\ chain[1].previousHash = <<"0">>
    /\ \A i \in 2..Len(chain) :
          /\ chain[i].previousHash = chain[i - 1].hash
          /\ chain[i].index = chain[i - 1].index + 1

\* Two blocks were appended, one by addBlock and one by createDigitalID.
ChainLinkedWitness ==
    /\ Len(chain) = 3
    /\ \E i \in 2..3 : chain[i].data \in Payloads
    /\ \E i \in 2..3 : chain[i].data \notin Payloads

\* C5: validateChain() returns true in every state reached through the
\* methods of the class.
ChainValid == validateChain(chain)

\* A block that mineBlock had to search a nonce for is in the chain.
ChainValidWitness ==
    \E i \in 2..Len(chain) : chain[i].nonce > 0

\* C6: every step of every operation leaves the chain it found as a prefix
\* of the chain it leaves, so no block is changed or removed.
AppendOnly == [][IsPrefix(chain, chain')]_vars

\* The chain has grown twice, and the load, addTransaction and
\* verifyDigitalID have all run to their end.
AppendOnlyWitness ==
    /\ Len(chain) = 3
    /\ loadPc = "done" /\ loadResult # <<>>
    /\ Len(transactions) = 1
    /\ \E i \in 1..Len(digitalIDs) : digitalIDs[i].verified

\* C10: every block, the genesis block included, stores the hash
\* calculateHash gives for its own five other fields, and that hash starts
\* with `difficulty` zeros.
BlockInvariant ==
    \A i \in 1..Len(chain) :
        /\ chain[i].hash = calculateHash(chain[i].index, chain[i].timestamp,
                                         chain[i].data, chain[i].previousHash,
                                         chain[i].nonce)
        /\ Substring0(chain[i].hash, difficulty) = Zeros(difficulty)

\* The ways of changing one field of block i in place, the stored hash left
\* as it is unless it is the field changed.
OtherHashes(ch, i) ==
    ({ch[j].hash : j \in 1..Len(ch)} \cup {<<"0", "0", "x">>}) \ {ch[i].hash}

OtherPayloads(ch, i) ==
    ({ch[j].data : j \in 1..Len(ch)}
        \cup {<<Prop("note", TRUE, <<"b">>)>>,
               ch[i].data \o <<Prop("extra", FALSE, Undefined)>>}) \ {ch[i].data}

OtherNonces(ch, i) ==
    IF i = 1 THEN {} ELSE (0..(ch[i].nonce + 1)) \ {ch[i].nonce}

Tampered(ch, i) ==
    {[ch EXCEPT ![i].hash = h] : h \in OtherHashes(ch, i)}
    \cup {[ch EXCEPT ![i].data = d] : d \in OtherPayloads(ch, i)}
    \cup {[ch EXCEPT ![i].nonce = n] : n \in OtherNonces(ch, i)}

\* C3: whichever block of the chain is taken, the genesis block included,
\* validateChain() returns false once its stored hash, its payload or (not
\* for the genesis block) its nonce has been changed in place.
TamperEvident ==
    \A i \in 1..Len(chain) : \A ch \in Tampered(chain, i) : ~validateChain(ch)

(***************************************************************************)
(* Properties of createDigitalID (SpecLedger).                             *)
(***************************************************************************)
Finished(k) == calls[k].pc \in {"returned", "threw"}

Concurrent(j, k) == k \in calls[j].conc \/ j \in calls[k].conc

\* C1: of two concurrent createDigitalID calls with the same email and
\* different wallet addresses exactly one returns a record, and the registry
\* does not hold two records with that email.
OneCreatePerEmail ==
    \A j, k \in 1..Len(calls) :
        (/\ j < k /\ Concurrent(j, k) /\ Finished(j) /\ Finished(k)
         /\ calls[j].input.email = calls[k].input.email
         /\ calls[j].input.walletAddress # calls[k].input.walletAddress)
        => /\ (calls[j].pc = "returned") # (calls[k].pc = "returned")
           /\ Cardinality({i \in 1..Len(digitalIDs) :
                  digitalIDs[i].email = calls[j].input.email}) <= 1

(***************************************************************************)
(* Properties of the DigitalID contract and DigitalIDService               *)
(* (SpecRegistry).                                                         *)
(***************************************************************************)

\* C2: no two identities of the contract have the same email, and no two
\* have the same walletAddress.
UniqueEmailAndWallet ==
    \A i, j \in 1..Len(identities) :
        i # j => /\ identities[i].email # identities[j].email
                 /\ identities[i].walletAddress # identities[j].walletAddress

\* Two identities exist, and one has moved to an email it was not created
\* with.
UniqueEmailAndWalletWitness ==
    /\ Len(identities) = 2
    /\ \E k \in 1..Len(events) :
          /\ events[k].event = "IdentityCreated"
          /\ identities[events[k].id].email # events[k].args[3]

IsMutation(e) ==
    e.event \in {"IdentityUpdated", "IdentityVerified", "RoleAdded", "RoleRemoved"}

\* C7: once deactivateIdentity has succeeded on an identity, no update,
\* verify, addRole or removeRole on it succeeds: the event log shows none of
\* their events for that identity after its IdentityDeactivated event.
DeactivatedIsTerminal ==
    \A i, j \in 1..Len(events) :
        (i < j /\ events[i].event = "IdentityDeactivated"
               /\ events[j].id = events[i].id)
        => ~IsMutation(events[j])

OwnerChecked == {"update", "deactivate", "addRole", "removeRole"}

\* C8: a call of updateDigitalIdentity, deactivateDigitalIdentity,
\* addRoleToIdentity or removeRoleFromIdentity whose wallet address is not
\* the walletAddress of the identity has thrown the Unauthorized error and
\* has sent no transaction, so that it changed nothing.
UnauthorizedRejected ==
    \A k \in 1..Len(tasks) :
        (/\ tasks[k].op \in OwnerChecked
         /\ IdentityAt(Contract, tasks[k].id).walletAddress # tasks[k].walletAddress)
        => /\ tasks[k].pc = "threw"
           /\ tasks[k].error = <<ServicePrefix(tasks[k].op), Unauthorized>>
           /\ ~tasks[k].sent

\* A call on an existing identity, made with the address of another
\* wallet, has thrown.
UnauthorizedRejectedWitness ==
    \E k \in 1..Len(tasks) :
        /\ tasks[k].op \in OwnerChecked
        /\ tasks[k].pc = "threw"
        /\ IdentityAt(Contract, tasks[k].id).walletAddress
              \notin {ZeroAddress, tasks[k].walletAddress}

\* The email of the arguments belongs to an identity of another wallet.
EmailOfAnother(sender, a) ==
    \E i \in 1..Len(identities) :
        /\ identities[i].email = a.email
        /\ identities[i].walletAddress # sender

\* The call reverts for the duplicate email and the storage stays as it is:
\* no identity added, the counter, the maps and the event log untouched.
RejectedAsDuplicateEmail(sender, a) ==
    /\ createIdentity(Contract, sender, a).revert = "Email already registered"
    /\ createIdentity(Contract, sender, a).st = Contract

\* C9 as stated: createIdentity with the email of an existing identity,
\* sent from a different wallet, reverts with the duplicate-email error and
\* changes nothing.
DuplicateEmailRejected ==
    \A sender \in Senders, a \in CreateArgs :
        EmailOfAnother(sender, a) => RejectedAsDuplicateEmail(sender, a)

\* C9: createIdentity with the email of an existing identity, sent from a
\* different wallet that holds no identity of its own, reverts with the
\* duplicate-email error and changes nothing.
DuplicateEmailRejectedForNewWallet ==
    \A sender \in Senders, a \in CreateArgs :
        (EmailOfAnother(sender, a) /\ Lookup(walletToIdentity, sender) = 0)
        => RejectedAsDuplicateEmail(sender, a)

\* A wallet without identity can send an email that another wallet's
\* identity holds, after transactions that moved that email.
DuplicateEmailRejectedWitness ==
    /\ \E sender \in Senders, a \in CreateArgs :
          EmailOfAnother(sender, a) /\ Lookup(walletToIdentity, sender) = 0
    /\ \E k \in 1..Len(events) : events[k].event = "IdentityUpdated"

\* C13: the roles of an identity never hold the same role name twice, in any
\* state createIdentity, addRole and removeRole lead to.
NoDuplicateRoles ==
    \A id \in 1..Len(identities) :
        \A a, b \in 1..Len(identities[id].roles) :
            a # b => identities[id].roles[a] # identities[id].roles[b]

\* C19: no two records of the registry carry the same hash, whichever
\* backend served the calls that made them.
UniqueHashes ==
    \A i, j \in 1..Len(digitalIDs) :
        i # j => digitalIDs[i].hash # digitalIDs[j].hash

\* C20: an identity passes from not verified to verified only in a step
\* that is a verifyIdentity transaction of the contract owner for it, and a
\* verifyIdentity from another sender or for an id that does not exist
\* reverts and leaves the storage of the contract as it was.
OnlyOwnerVerifies ==
    [][/\ \A id \in 1..Len(identities) :
            (~identities[id].isVerified /\ identities'[id].isVerified)
            => events' = Append(events,
                                Event("IdentityVerified", id, <<<<owner>>>>))
       /\ \A sender \in Senders, id \in 0..(Len(identities) + 1) :
            (sender # owner \/ id \notin 1..Len(identities))
            => /\ verifyIdentity(Contract, sender, id).revert # ""
               /\ verifyIdentity(Contract, sender, id).st = Contract]_vars

\* The owner has verified an identity that another account holds.
OnlyOwnerVerifiesWitness ==
    \E id \in 1..Len(identities) :
        /\ identities[id].isVerified
        /\ identities[id].walletAddress # owner

\* This step is a createDigitalID call that found MongoDB not connected.
InMemoryCreate ==
    /\ Len(calls') = Len(calls) + 1
    /\ calls'[Len(calls')].pc = "returned"

\* C15: a createDigitalID call served by the in-memory branch succeeds only
\* where DigitalID.create would have accepted the document: its email, role
\* and wallet address are well formed and no record holds its hash, so that
\* both backends give every call the same outcome.
BackendsAgree ==
    [][InMemoryCreate =>
          LET record == calls'[Len(calls')].ret[1]
          IN  /\ SchemaValid(record)
              /\ \A i \in 1..Len(digitalIDs) :
                    digitalIDs[i].hash # record.hash]_vars

\* This step is the return of a createDigitalID call.
CreateReturns ==
    \E k \in 1..Len(calls') :
        /\ calls'[k].pc = "returned"
        /\ k <= Len(calls) => calls[k].pc # "returned"

\* This step is a verifyDigitalID that marked a record verified.
VerifyMarks ==
    \E i \in 1..Len(digitalIDs) :
        /\ i <= Len(digitalIDs')
        /\ digitalIDs'[i].id = digitalIDs[i].id
        /\ ~digitalIDs[i].verified
        /\ digitalIDs'[i].verified

\* C12: every step in which createDigitalID returns a record or
\* verifyDigitalID marks one verified appends exactly one block to the
\* chain, so the chain grows by one with each mutation of a record.
MutationMintsBlock ==
    [][(CreateReturns \/ VerifyMarks) => Len(chain') = Len(chain) + 1]_vars

(***************************************************************************)
(* Properties of DigitalIDService with several calls in flight             *)
(* (SpecService).                                                          *)
(***************************************************************************)

\* The IdentityVerified events the contract has emitted for identity id.
VerifiedEvents(log, id) ==
    {i \in 1..Len(log) : log[i].event = "IdentityVerified" /\ log[i].id = id}

\* Call i of the service has returned or thrown.
TaskDone(i) == tasks[i].pc \in {"returned", "threw"}

\* Call k of verifyDigitalIdentity returns in this step, on an identity that
\* exists, after an earlier verifyDigitalIdentity of the same id returned
\* and with no other call of the service in flight.
SecondVerifyReturns(k) ==
    /\ \A i \in 1..Len(tasks) : i # k => TaskDone(i)
    /\ tasks[k].op = "verify"
    /\ tasks[k].pc = "mined"
    /\ tasks'[k].pc = "returned"
    /\ identityExists(Contract, tasks[k].id) = ""
    /\ \E j \in 1..(k - 1) :
          /\ tasks[j].op = "verify"
          /\ tasks[j].id = tasks[k].id
          /\ tasks[j].pc = "returned"

\* C11: when verifyDigitalIdentity(id, v2) returns after
\* verifyDigitalIdentity(id, v1) returned, on an identity that exists, the
\* identity is verified, the verifier recorded for id is v2, and two
\* IdentityVerified events stand in the log of the contract.
LatestVerifierWins ==
    [][\A k \in 1..Len(tasks) :
          SecondVerifyReturns(k) =>
              /\ identities'[tasks[k].id].isVerified
              /\ tasks[k].id \in DOMAIN verificationQueue'
              /\ verificationQueue'[tasks[k].id].verifierAddress
                     = tasks[k].walletAddress
              /\ Cardinality(VerifiedEvents(events', tasks[k].id)) >= 2]_vars

\* Call k has passed its ownership check and still awaits its transaction,
\* before this step and after it.
AwaitsWrite(k) ==
    /\ tasks[k].op \in {"update", "deactivate", "addRole", "removeRole"}
    /\ tasks[k].pc = "checked"
    /\ tasks'[k].pc = "checked"

\* Call k of updateDigitalIdentity returns in this step.
UpdateReturns(k) ==
    /\ tasks[k].op = "update"
    /\ tasks[k].pc = "mined"
    /\ tasks'[k].pc = "returned"

\* C14: between the ownership check of a call and its transaction no step
\* changes the identity the call checked, and the identity an
\* updateDigitalIdentity call returns carries the fields of its own request.
MutationsSerialized ==
    [][\A k \in 1..Len(tasks) :
          /\ AwaitsWrite(k) =>
                identities'[tasks[k].id] = identities[tasks[k].id]
          /\ UpdateReturns(k) =>
                /\ tasks'[k].ret[1].name = tasks[k].arg[1].name
                /\ tasks'[k].ret[1].email = tasks[k].arg[1].email
                /\ tasks'[k].ret[1].nationality = tasks[k].arg[1].nationality
                /\ tasks'[k].ret[1].emergencyContact
                       = tasks[k].arg[1].emergencyContact]_vars

(***************************************************************************)
(* Properties of the QR strings (SpecCodec).                               *)
(***************************************************************************)

\* A validateQRCodeData call is answered in this step.
ValidateAnswers ==
    /\ qrCall' # qrCall
    /\ qrCall' # <<>>
    /\ qrCall'[1].op = "validateQRCodeData"

\* The text parses to an object that carries the id `id` and a
\* walletAddress, identity `id` exists and its walletAddress is the text's.
TokenFor(text, id) ==
    LET data == JSONparse(text)
        tokenId == Get(data.props, "id")
    IN  /\ data.kind = "object"
        /\ tokenId # <<>>
        /\ IsNumber(tokenId[1].v)
        /\ Num(tokenId[1].v) = id
        /\ id \in 1..Len(identities)
        /\ Get(data.props, "walletAddress")
              = <<Prop("walletAddress", TRUE, <<identities[id].walletAddress>>)>>

\* C16: validateQRCodeData never throws; it answers valid: true, with the
\* stored identity, exactly when the contract answered and the string is a
\* token for an identity that exists with the token's walletAddress, and
\* valid: false without an identity otherwise.  The string
\* generateQRCodeData made for a stored identity is answered valid: true,
\* and the same string with another walletAddress valid: false.
QRValidation ==
    [][ValidateAnswers =>
          LET c == qrCall'[1] IN
          /\ ~c.result.threw
          /\ c.result.valid <=>
                (c.reachable /\ \E id \in 1..Len(identities) : TokenFor(c.input, id))
          /\ c.result.valid =>
                \E id \in 1..Len(identities) :
                    TokenFor(c.input, id) /\ c.result.identity = <<identities[id]>>
          /\ ~c.result.valid => c.result.identity = <<>>
          /\ \A id \in 1..Len(identities), t \in 0..MaxClock :
                /\ (c.reachable /\ c.input = generateQRCodeData(identities[id], t))
                      => c.result.valid
                /\ \A w \in Senders \ {identities[id].walletAddress} :
                      c.input = Alter(generateQRCodeData(identities[id], t),
                                      "walletAddress", w)
                      => ~c.result.valid]_vars

\* A string generateQRCodeData made has been validated and found valid.
QRValidationWitness ==
    /\ qrCall # <<>>
    /\ qrCall[1].op = "validateQRCodeData"
    /\ qrCall[1].source # <<>>
    /\ qrCall[1].source[1].gen = "generateQRCodeData"
    /\ qrCall[1].result.valid

\* The object without its undefined properties.
Defined(x) == SelectSeq(x, LAMBDA p : p.q \/ p.v # Undefined)

\* C17: parseQRCode applied to the string a QRService generator encoded
\* for the QRCodeData x returns x.
RoundTrip ==
    (/\ qrCall # <<>>
     /\ qrCall[1].op = "parseQRCode"
     /\ qrCall[1].source # <<>>
     /\ qrCall[1].source[1].gen \in {"generateDigitalIDQR", "generateWalletQR",
                                      "generateTransactionQR"})
    => qrCall[1].result.qrData = <<Defined(qrCall[1].source[1].x)>>

\* The types of QRCodeData.
QRTypes == {<<"digital_id">>, <<"wallet">>, <<"transaction">>}

\* The object has the structure of QRCodeData: userId and walletAddress
\* strings, timestamp a number, type one of the three.
IsQRCodeData(x) ==
    /\ Get(x, "userId") # <<>> /\ Get(x, "userId")[1].q
    /\ Get(x, "walletAddress") # <<>> /\ Get(x, "walletAddress")[1].q
    /\ Get(x, "timestamp") # <<>>
    /\ ~Get(x, "timestamp")[1].q /\ IsNumber(Get(x, "timestamp")[1].v)
    /\ Get(x, "type") # <<>>
    /\ Get(x, "type")[1].q /\ Get(x, "type")[1].v \in QRTypes

\* C18: what parseQRCode returns, when it returns an object and not null,
\* has the structure of QRCodeData, its type one of the three.
ParseRejects ==
    (/\ qrCall # <<>>
     /\ qrCall[1].op = "parseQRCode"
     /\ qrCall[1].result.qrData # <<>>)
    => IsQRCodeData(qrCall[1].result.qrData[1])

(***************************************************************************)
(* Claims about removeRole, checked under SpecRegistry.                    *)
(***************************************************************************)
\* How many times role x stands in the array.
Occurrences(roles, x) == Cardinality({i \in 1..Len(roles) : roles[i] = x})

\* What removing the role at roleIndex should leave: one role fewer, the
\* removed role once less and every other role as often as before.
RemovedAt(before, after, roleIndex) ==
    /\ Len(after) = Len(before) - 1
    /\ \A x \in Roles :
          Occurrences(after, x) =
              IF x = before[roleIndex + 1] THEN Occurrences(before, x) - 1
              ELSE Occurrences(before, x)

\* C24: removeRole(id, i), sent by the identity's wallet with any index
\* 0 <= i < roles.length (the last included), succeeds, removes exactly the
\* role that stood at i and keeps every other, shrinks the array by one and
\* emits RoleRemoved naming the removed role.
RemoveRoleRemoves ==
    \A sender \in Senders, id \in Ids, roleIndex \in RoleIndexes :
        (/\ OwnerModifiers(Contract, sender, id) = ""
         /\ roleIndex < Len(identities[id].roles))
        => LET result == removeRole(Contract, sender, id, roleIndex)
               before == identities[id].roles
           IN  /\ result.revert = ""
               /\ RemovedAt(before, result.st.identities[id].roles, roleIndex)
               /\ result.st.events =
                      Append(events, Event("RoleRemoved", id,
                                           <<before[roleIndex + 1]>>))

(***************************************************************************)
(* Claims about createDigitalIdentity, checked under SpecRegistry: one     *)
(* call of the service among the transactions the accounts send directly.  *)
(***************************************************************************)
\* Task k is a createDigitalIdentity call that takes the step from pc `from`.
CreateStep(k, from) ==
    /\ tasks[k].op = "create"
    /\ tasks[k].pc = from
    /\ tasks'[k].pc # from

\* No identity is held by the wallet.
WalletFree(walletAddress) ==
    \A i \in 1..Len(identities) : identities[i].walletAddress # walletAddress

\* No identity carries the email.
EmailFree(email) ==
    \A i \in 1..Len(identities) : identities[i].email # email

\* The wallet holds nothing but, at most, the identity the transaction of
\* the service has just registered.
WalletFreeBefore(walletAddress) ==
    \A i \in 1..Len(identities) :
        identities[i].walletAddress = walletAddress
            => i = Lookup(walletToIdentity, ServiceWallet)

\* C23: createDigitalIdentity(request, walletAddress) with a name, and an
\* email and a wallet that no identity holds, succeeds however many
\* identities were created before: its transaction is mined, and the call
\* returns an identity whose walletAddress is the supplied one and whose
\* email is the request's.
CreateSucceeds ==
    [][\A k \in 1..Len(tasks) :
          LET t == tasks[k] IN
          /\ (/\ CreateStep(k, "checked")
              /\ t.arg[1].name # <<>> /\ t.arg[1].email # <<>>
              /\ EmailFree(t.arg[1].email)
              /\ WalletFree(t.walletAddress))
             => tasks'[k].pc = "mined"
          /\ (/\ CreateStep(k, "mined")
              /\ WalletFreeBefore(t.walletAddress))
             => /\ tasks'[k].pc = "returned"
                /\ tasks'[k].ret[1].walletAddress = t.walletAddress
                /\ tasks'[k].ret[1].email = t.arg[1].email]_vars

\* C25: whenever createDigitalIdentity returns an error, 'Failed to retrieve
\* created identity' included, the call has added no identity: the error
\* comes while its transaction is not mined, and the identities, their
\* count and the verification queue are as they were.
CreateAllOrNothing ==
    [][\A k \in 1..Len(tasks) :
          (/\ tasks[k].op = "create"
           /\ tasks[k].pc # "threw"
           /\ tasks'[k].pc = "threw")
          => /\ tasks[k].pc = "checked"
             /\ identities' = identities
             /\ idCounter' = idCounter
             /\ verificationQueue' = verificationQueue]_vars

(***************************************************************************)
(* Claims about the records of createDigitalID and the constructor's load, *)
(* checked under SpecLedger.                                               *)
(***************************************************************************)
\* Array.prototype.find over this.digitalIDs: the first record that matches,
\* or none (null).
Find(ids, matching) ==
    IF matching = {} THEN <<>>
    ELSE <<ids[CHOOSE i \in matching : \A j \in matching : i <= j]>>

getDigitalIDById(ids, id) ==
    Find(ids, {i \in 1..Len(ids) : ids[i].id = id})

getDigitalIDByHash(ids, hash) ==
    Find(ids, {i \in 1..Len(ids) : ids[i].hash = hash})

\* The lookup by id gave the record createDigitalID returned (the verified
\* flag apart, which verifyDigitalID sets on it later).
Gives(found, record) ==
    /\ found # <<>>
    /\ found[1].id = record.id
    /\ found[1].hash = record.hash

\* The lookup by hash gave a record of that hash: the returned one, unless
\* an earlier record carries the same hash.
GivesHash(found, record) ==
    /\ found # <<>>
    /\ found[1].hash = record.hash

\* C26: once createDigitalID has returned a record, getDigitalIDByHash of
\* its hash and getDigitalIDById of its id return it in every later state,
\* however the constructor's loadDigitalIDsFromDB (successful, disconnected
\* or failed) is interleaved with the call.
CreatedStaysFound ==
    \A k \in 1..Len(calls) :
        calls[k].pc = "returned"
        => /\ GivesHash(getDigitalIDByHash(digitalIDs, calls[k].ret[1].hash),
                        calls[k].ret[1])
           /\ Gives(getDigitalIDById(digitalIDs, calls[k].ret[1].id),
                    calls[k].ret[1])

\* The block is one createDigitalID appended, and what it says.
IsDigitalIDBlock(block) ==
    /\ block.data[1].k = "type"
    /\ block.data[1].v = <<"digital_id">>

BlockDigitalID(block) == block.data[2].v

BlockHash(block) == block.data[3].v

\* C27: each record in digitalIDs has a block on the chain whose payload
\* carries its id and hash, and each digital_id block on the chain refers
\* to a record present in digitalIDs.
RecordsMatchBlocks ==
    /\ \A i \in 1..Len(digitalIDs) :
          \E b \in 1..Len(chain) :
              /\ IsDigitalIDBlock(chain[b])
              /\ BlockDigitalID(chain[b]) = digitalIDs[i].id
              /\ BlockHash(chain[b]) = digitalIDs[i].hash
    /\ \A b \in 1..Len(chain) :
          IsDigitalIDBlock(chain[b])
          => \E i \in 1..Len(digitalIDs) :
                /\ digitalIDs[i].id = BlockDigitalID(chain[b])
                /\ digitalIDs[i].hash = BlockHash(chain[b])

(***************************************************************************)
(* Claims about the contract's indexes, checked under SpecRegistry.        *)
(***************************************************************************)
\* The successful createIdentity calls: each left one IdentityCreated event.
Creations == {i \in 1..Len(events) : events[i].event = "IdentityCreated"}

\* The ids that createIdentity handed out, in the order of the calls.
CreatedIds == [i \in 1..Len(events) |-> events[i].id]

\* The emails that callers send or that identities carry.
KnownEmails ==
    {E1, E2} \cup DOMAIN emailToIdentity
             \cup {identities[i].email : i \in 1..Len(identities)}

\* C28: the identities that exist are exactly those with ids 1.._idCounter,
\* no id handed out twice; getTotalIdentities() is the number of successful
\* createIdentity calls; walletToIdentity[w] = id # 0 exactly when
\* identities[id].walletAddress = w, and emailToIdentity[e] = id # 0 exactly
\* when identities[id].email = e.
IndexesConsistent ==
    /\ \A id \in 0..(idCounter + 1) :
          identityExists(Contract, id) = "" <=> id \in 1..idCounter
    /\ \A id \in 1..idCounter : identities[id].id = id
    /\ \A i, j \in Creations : i # j => CreatedIds[i] # CreatedIds[j]
    /\ getTotalIdentities(Contract) = Cardinality(Creations)
    /\ \A w \in Senders, id \in 1..(idCounter + 1) :
          Lookup(walletToIdentity, w) = id
              <=> IdentityAt(Contract, id).walletAddress = w
    /\ \A e \in KnownEmails, id \in 1..(idCounter + 1) :
          Lookup(emailToIdentity, e) = id
              <=> (id <= idCounter /\ IdentityAt(Contract, id).email = e)

\* An identity moved from E1 to E2 and another took the released E1.
IndexesConsistentWitness ==
    /\ idCounter = 2
    /\ Lookup(emailToIdentity, E2) = 1
    /\ Lookup(emailToIdentity, E1) = 2
    /\ \E i \in 1..Len(events) : events[i].event = "IdentityUpdated"

(***************************************************************************)
(* The life of a token: identities register and change themselves, tokens  *)
(* are generated for them and presented, unaltered, for validation.        *)
(***************************************************************************)
TokenNext ==
    \/ \E sender \in Senders, a \in CodecCreateArgs : CreateIdentity(sender, a)
    \/ \E sender \in Senders, id \in Ids, u \in UpdateRequests :
          UpdateIdentity(sender, id, u)
    \/ \E sender \in Senders, id \in Ids : VerifyIdentity(sender, id)
    \/ \E sender \in Senders, id \in Ids : DeactivateIdentity(sender, id)
    \/ \E sender \in Senders, id \in Ids, role \in Roles : AddRole(sender, id, role)
    \/ \E sender \in Senders, id \in Ids, roleIndex \in RoleIndexes :
          RemoveRole(sender, id, roleIndex)
    \/ \E id \in Ids : GenerateQRCodeData(id)
    \/ \E qrData \in {qr.text} \ {<<>>} : ValidateQRCodeData(qrData)

SpecToken == InitCodec /\ [][TokenNext]_vars

\* The last call validated a token of generateQRCodeData, the contract
\* answering.
TokenValidated ==
    /\ qrCall # <<>>
    /\ qrCall[1].op = "validateQRCodeData"
    /\ qrCall[1].source # <<>>
    /\ qrCall[1].source[1].gen = "generateQRCodeData"
    /\ qrCall[1].reachable

\* The id and the wallet written in the token.
TokenId == Num(qrCall[1].source[1].x[1].v)

TokenWallet == qrCall[1].source[1].x[4].v[1]

\* No transaction removes an identity or changes its id or walletAddress.
IdentityKept ==
    /\ Len(identities') >= Len(identities)
    /\ \A id \in 1..Len(identities) :
          /\ identities'[id].id = identities[id].id
          /\ identities'[id].walletAddress = identities[id].walletAddress

\* C30: an identity's id and walletAddress never change and identities are
\* never removed, so a token generateQRCodeData made for an identity keeps
\* validating with valid: true, giving that identity, after any later
\* update, verify, addRole, removeRole or deactivate of it.
TokenStaysValid ==
    /\ [][IdentityKept]_vars
    /\ [](TokenValidated
          => /\ qrCall[1].result.valid
             /\ qrCall[1].result.identity[1].id = TokenId
             /\ qrCall[1].result.identity[1].walletAddress = TokenWallet)

\* A token validated after its identity was renamed and deactivated.
TokenStaysValidWitness ==
    /\ TokenValidated
    /\ qrCall[1].result.valid
    /\ ~qrCall[1].result.identity[1].isActive
    /\ qrCall[1].result.identity[1].name # qrCall[1].source[1].x[2].v

(***************************************************************************)
(* Claims about the preimage of calculateHash (SpecLedger).                *)
(***************************************************************************)
\* The hash calculateHash gives for the five fields of a block.
HashOf(block) ==
    calculateHash(block.index, block.timestamp, block.data,
                  block.previousHash, block.nonce)

\* Block i of the chain with any combination of its five hashed fields
\* changed to other bounded integers and strings, the stored hash kept.
OtherBlocks(ch, i) ==
    { [ch[i] EXCEPT !.index = index, !.timestamp = timestamp, !.data = data,
                    !.previousHash = previousHash, !.nonce = nonce] :
        index \in 0..(MaxBlocks + 1),
        timestamp \in 0..(MaxClock + 1),
        data \in {ch[i].data, <<Prop("note", TRUE, <<"b">>)>>},
        previousHash \in {ch[i].previousHash, <<"0", "0", "x">>},
        nonce \in {ch[i].nonce, ch[i].nonce + 1} } \ {ch[i]}

\* C29: the preimage of calculateHash is injective in (index, timestamp,
\* payload, previousHash, nonce) over bounded integers and strings: no two
\* different field combinations give the same hash, so a block whose fields
\* were changed in any combination, its hash not recomputed, makes
\* validateChain() false.
PreimageInjective ==
    \A i \in 2..Len(chain) : \A block \in OtherBlocks(chain, i) :
        /\ HashOf(block) # HashOf(chain[i])
        /\ ~validateChain([chain EXCEPT ![i] = block])

(***************************************************************************)
(* The ledger with a caller that keeps the array getChain() returned and   *)
(* writes into its blocks.                                                 *)
(***************************************************************************)
\* The payloads such a caller writes: one of those handed to addBlock (which
\* puts back what a block of addBlock carried) or another.
TamperPayloads == Payloads \cup {<<Prop("note", TRUE, <<"b">>)>>}

\* getChain()[i - 1].data = data
Tamper(i, data) ==
    /\ i \in 1..Len(chain)
    /\ chain' = [chain EXCEPT ![i].data = data]
    /\ UNCHANGED <<registryVars, codecVars, minerVars>>
    /\ UNCHANGED <<transactions, digitalIDs, now, db, loadPc, loadResult, calls>>

TamperNext ==
    \/ \E data \in Payloads : AddBlock(data)
    \/ \E userData \in UserInputs : CreateInMemory(userData)
    \/ \E i \in 1..(MaxBlocks + 1), data \in TamperPayloads : Tamper(i, data)

SpecTamper == InitCodec /\ [][TamperNext]_vars

\* C21: in any state where validateChain() is false, no addBlock and no
\* createDigitalID appends a block or adds a record, until the chain
\* validates again.
NoAppendWhileInvalid ==
    [][~validateChain(chain)
       => /\ Len(chain') <= Len(chain)
          /\ Len(digitalIDs') <= Len(digitalIDs)]_vars

(***************************************************************************)
(* addBlock seen one iteration of mineBlock's loop at a time.  addBlock is *)
(* synchronous: once called it runs to its return with nothing else of the *)
(* program in between, so the iterations and the push are weakly fair.     *)
(* The search ends where the digest of the model has the prefix, which it  *)
(* reaches within MaxNonce consecutive nonces.                             *)
(***************************************************************************)
MaxNonce == 4

\* The payloads handed to addBlock.
MiningPayloads ==
    Payloads \cup {<<Prop("note", TRUE, <<"b">>)>>,
                   <<Prop("note", TRUE, <<"a">>), Prop("to", TRUE, <<W1>>)>>}

\* The loop condition of mineBlock.
Searching(block) == Substring0(block.hash, difficulty) # Zeros(difficulty)

\* addBlock(data) up to the call of mineBlock.
StartAddBlock(data) ==
    /\ mining = <<>>
    /\ Len(chain) - 1 < MaxBlocks
    /\ \E t \in Later(now) :
          LET previousBlock == chain[Len(chain)] IN
          /\ mining' = <<[index |-> previousBlock.index + 1,
                          timestamp |-> t,
                          data |-> data,
                          previousHash |-> previousBlock.hash,
                          hash |-> calculateHash(previousBlock.index + 1, t,
                                       data, previousBlock.hash, 0),
                          nonce |-> 0]>>
          /\ now' = t
    /\ UNCHANGED <<chain, transactions, digitalIDs, db, loadPc, loadResult, calls>>
    /\ UNCHANGED <<registryVars, codecVars>>

\* One iteration of the while loop.
MineStep ==
    /\ mining # <<>>
    /\ Searching(mining[1])
    /\ mining[1].nonce < MaxNonce
    /\ mining' = <<mineBlockStep(mining[1])>>
    /\ UNCHANGED <<ledgerVars, registryVars, codecVars>>

\* The loop is left: this.chain.push(minedBlock) and the return.
PushMined ==
    /\ mining # <<>>
    /\ ~Searching(mining[1])
    /\ chain' = Append(chain, mining[1])
    /\ mining' = <<>>
    /\ UNCHANGED <<transactions, digitalIDs, now, db, loadPc, loadResult, calls>>
    /\ UNCHANGED <<registryVars, codecVars>>

MiningNext ==
    \/ \E data \in MiningPayloads : StartAddBlock(data)
    \/ MineStep
    \/ PushMined

SpecMining ==
    /\ InitLedger
    /\ [][MiningNext]_vars
    /\ WF_vars(MineStep)
    /\ WF_vars(PushMined)

\* What a step of an addBlock call does to the candidate block and the
\* chain: the search starts at nonce 0; an iteration raises the nonce by
\* one and changes no field but nonce and hash; the return appends exactly
\* the candidate, whose hash is that of its fields and has the prefix.
MiningStep ==
    /\ (mining = <<>> /\ mining' # <<>>)
       => mining'[1].nonce = 0 /\ chain' = chain
    /\ (mining # <<>> /\ mining' # <<>>)
       => /\ mining'[1].nonce = mining[1].nonce + 1
          /\ mining'[1].index = mining[1].index
          /\ mining'[1].timestamp = mining[1].timestamp
          /\ mining'[1].data = mining[1].data
          /\ mining'[1].previousHash = mining[1].previousHash
          /\ chain' = chain
    /\ (mining # <<>> /\ mining' = <<>>)
       => /\ chain' = Append(chain, mining[1])
          /\ Substring0(mining[1].hash, difficulty) = Zeros(difficulty)
          /\ mining[1].hash = calculateHash(mining[1].index, mining[1].timestamp,
                                  mining[1].data, mining[1].previousHash,
                                  mining[1].nonce)

\* C22: every addBlock call eventually terminates, having found a nonce
\* whose hash meets the difficulty, and appends exactly one block; during
\* the search the nonce only increases, from 0, and no other field of the
\* candidate block changes.
MiningTerminates ==
    /\ (mining # <<>>) ~> (mining = <<>>)
    /\ [][MiningStep]_vars

\* An addBlock call has returned after a search of more than one iteration.
MiningTerminatesWitness ==
    /\ mining = <<>>
    /\ \E i \in 2..Len(chain) : chain[i].nonce >= 2

==============================================================================
